---- MODULE Spec2Model ----
(***************************************************************************)
(* Model of the battery charger / battery profiler scripts driving a       *)
(* TENMA bench supply (battery-charger.py, battery-profiler.py, tenma.py). *)
(*                                                                         *)
(* Two programs are modelled over the same variables:                      *)
(*   SpecCharger   battery-charger.py: one thread runs the engine          *)
(*                 (charge_battery / discharge_battery) inside try/finally *)
(*   SpecProfiler  battery-profiler.py: the main thread runs               *)
(*                 profile_battery, a second thread runs the engine, both  *)
(*                 share m_pause_lock, m_running, m_resistor and the       *)
(*                 serial device                                           *)
(*   Spec          either of the two                                       *)
(*                                                                         *)
(* Units.  Python floats are modelled by integers:                         *)
(*   voltage      1 unit = 5 mV   (the supply resolves 10 mV = VRes units) *)
(*   current      1 unit = 0.5 mA (the supply resolves 1 mA  = IRes units) *)
(*   resistance   1 unit = 10 Ohm (so that resistance * current = voltage) *)
(*   energy       1 unit = voltage unit * current unit * second; the       *)
(*                division by 3600 of the source is folded into the unit   *)
(* The scripts name Tenma.CHANNEL_1 and                                    *)
(* Tenma.DEFAULT_POWER_SUPPLY_MAX_VOLTAGE, which tenma.py does not define: *)
(* the model takes them as channel 1 and as the configured cfg.max_v.      *)
(* One step of a thread is one statement that another thread (or the       *)
(* SIGINT handler) can observe: a serial write, a serial read, a lock      *)
(* operation, a relay command, an access to a shared global.  A            *)
(* time.sleep() or print() is folded into the statement before it.         *)
(***************************************************************************)
EXTENDS Integers, Sequences, FiniteSets, TLC

VARIABLES
  script,              \* which program runs: "charger" or "profiler"
  cfg,                 \* the m_* configuration values after argument parsing
  m_running,           \* cooperative cancellation flag
  m_set_ovp,           \* over-voltage protection flag the engine asked for
  m_relays_connected,  \* Phidget library / hardware usable
  m_relays,            \* relay handles: "None", "Open" or "Closed" per channel
  m_resistor,          \* recorded series resistance per relay index
  relay,               \* physical state of the four relays
  tenma,               \* Tenma.device, Tenma.device_id (a sequence of
                       \* characters) and the setpoints held by the supply
  lock,                \* owner of m_pause_lock: "none", "main" or "engine"
  pc,                  \* statement each thread is at
  sub,                 \* step inside that statement
  call,                \* attach_battery frame: arguments and return label
  voltage,             \* local 'voltage' of each thread
  current,             \* local 'current' of each thread
  supply_voltage,      \* local 'supply_voltage' of get_battery_voltage
  exc,                 \* exception that ended a thread
  status,              \* process exit status ("running" until the exit)
  actual_capacity,     \* profile_battery locals
  prev_capacity,
  prev_clock,
  now,                 \* value of time.perf_counter()
  saved,               \* set_voltage / set_current saved by an interruption
  stub,                \* behaviour of the instrument on measurement queries
  f,                   \* the lines written to the results file
  response,            \* a transport query seen on the serial line
  files,               \* a call of open_file and the directory it runs in
  \* history variables (not in the program)
  cancelled,           \* SIGINT has been delivered
  cancelPhase,         \* engine phase at the moment of the SIGINT
  visited,             \* engine phases entered so far, in order
  preSeen,             \* Precharge readings >= the threshold seen so far
  cvSeen,              \* ConstantVoltage readings <= end-of-current so far
  ncmd,                \* serial writes issued so far (saturating)
  nrelay,              \* relay commands issued so far (saturating)
  lastOut,             \* last output command written: "none", "OUT0", "OUT1"
  interruptions,       \* interruptions performed so far
  snap,                \* supply state when the current interruption began
  roundTrip            \* outcome of the interruption that has just returned

vars == <<script, cfg, m_running, m_set_ovp, m_relays_connected, m_relays,
          m_resistor, relay, tenma, lock, pc, sub, call, voltage, current,
          supply_voltage, exc, status, actual_capacity, prev_capacity,
          prev_clock, now, saved, stub, cancelled, cancelPhase, visited,
          preSeen, cvSeen, ncmd, nrelay, lastOut, snap, roundTrip, f,
          interruptions, response, files>>

-----------------------------------------------------------------------------
(* Bounds of the model *)

MaxVoltK == 2      \* VOUT? answers 0, VRes, .., MaxVoltK * VRes
MaxCurrK == 1      \* IOUT? answers 0, 2 * IRes, .., MaxCurrK * 2 * IRes
MaxClock == 1      \* a poll reads time.perf_counter() as 0 .. MaxClock
MaxCount == 1      \* the command counters saturate here
MaxEnergy == 8      \* the run is followed while |actual_capacity| <= MaxEnergy

(* Program constants *)

VRes == 2                          \* 'VSET{}:{:05.2f}': two decimals
IRes == 2                          \* 'ISET{}:{:05.3f}': three decimals
OPEN_CIRCUIT_RESISTANCE == 100000000  \* 1000000000 Ohm, in units of 10 Ohm
SAMPLE_CURRENT == 2                \* 0.001 A, in units of 0.5 mA
RELAYS_NEG_CON == 0
RELAYS_POS_CON == 3
RELAYS_ENABLE_BATTERY == 1
RELAYS_RESISTOR == 2

Threads == {"main", "engine"}
Channels == 0..3

VoltReadings == {VRes * k : k \in 0..MaxVoltK}
CurrReadings == {2 * IRes * k : k \in 0..MaxCurrK}

Min(a, b) == IF a < b THEN a ELSE b
Bump(n) == Min(n + 1, MaxCount)

-----------------------------------------------------------------------------
(* Configuration: the values of the m_* globals after the command line and *)
(* the configuration file have been read.                                  *)

\* With these values the readings the model can draw fall below, on and
\* above each threshold the engine compares them with.
BaseConfig ==
  [ discharge  |-> FALSE, relays |-> TRUE, skip_check |-> FALSE,
    pre_v |-> 2, pre_i |-> 2, cv |-> 4, cc |-> 4, eoc |-> 0,
    empty_v |-> 8, max_i |-> 4, dis_i |-> 4,
    r_conn |-> 1, r_dis |-> 2, max_v |-> 6, delta |-> 8 ]

GoodConfigs ==
  { [BaseConfig EXCEPT !.discharge = d, !.relays = r] : d, r \in BOOLEAN }
  \cup { [BaseConfig EXCEPT !.cv = 3],     \* not a multiple of the resolution
         [BaseConfig EXCEPT !.pre_v = 4,   \* precharge level = CV level
                            !.skip_check = TRUE] }

BadCurrentConfigs ==
  { [BaseConfig EXCEPT !.pre_i = 6], [BaseConfig EXCEPT !.cc = 6],
    [BaseConfig EXCEPT !.eoc = 6],   [BaseConfig EXCEPT !.dis_i = 6] }

Configs == GoodConfigs \cup BadCurrentConfigs

\* The configurations battery-profiler.py is run with.  The discharge run
\* has resistors small enough for a poll to add energy within MaxEnergy, a
\* LUT step of half the energy one poll can add, and a constant-voltage
\* level above what its discharge resistor drops.
ProfilerConfigs ==
  { BaseConfig,
    [BaseConfig EXCEPT !.discharge = TRUE, !.r_conn = 0, !.r_dis = 1,
                       !.empty_v = 2, !.delta = 4, !.cv = 6],
    [BaseConfig EXCEPT !.eoc = 6] }

\* the ceiling test without its end-of-current operand
CurrentCeilingExceeded_noEoc(c) ==
  \/ c.pre_i > c.max_i
  \/ c.cc > c.max_i
  \/ c.dis_i > c.max_i

\* The conditions of the two resistor sizing warnings of both scripts; the
\* scripts print a warning and go on.
ResistorSizingWarning(c) ==
  /\ c.r_dis > 0
  /\ \/ c.cv > c.r_dis * c.dis_i
     \/ c.r_dis * c.dis_i - c.empty_v > c.max_v

\* src: the current ceiling test of both scripts
CurrentCeilingExceeded(c) ==
  \/ c.pre_i > c.max_i
  \/ c.cc > c.max_i
  \/ c.eoc > c.max_i
  \/ c.dis_i > c.max_i

-----------------------------------------------------------------------------
(* tenma.py: wire formats *)

\* '{:05.2f}'.format(x): x rounded to the resolution of the field.  A value
\* half way between two representable values goes either way, depending on
\* the binary representation of the float.
FmtVoltage(x) ==
  IF x % VRes = 0 THEN {x} ELSE {x - (x % VRes), x - (x % VRes) + VRes}

FmtCurrent(x) ==
  IF x % IRes = 0 THEN {x} ELSE {x - (x % IRes), x - (x % IRes) + IRes}

DeviceOpen == tenma.device = "Open"

\* The step does nothing on the serial line.
Quiet == UNCHANGED <<tenma, ncmd, lastOut>>

\* Tenma._send_command of a command that changes the supply: written only
\* when a device is connected.
SendSet(t, newTenma, out) ==
  IF DeviceOpen
    THEN /\ tenma' = newTenma
         /\ ncmd' = Bump(ncmd)
         /\ lastOut' = IF out = "same" THEN lastOut ELSE out
    ELSE Quiet

set_output(t, on) ==
  SendSet(t, [tenma EXCEPT !.out = on], IF on THEN "OUT1" ELSE "OUT0")

set_ovp(t, on) == SendSet(t, [tenma EXCEPT !.ovp = on], "same")

set_ocp(t, on) == SendSet(t, [tenma EXCEPT !.ocp = on], "same")

set_voltage(t, v) ==
  \E w \in FmtVoltage(v) : SendSet(t, [tenma EXCEPT !.vset = w], "same")

set_current(t, i) ==
  \E w \in FmtCurrent(i) : SendSet(t, [tenma EXCEPT !.iset = w], "same")

\* Tenma._send_command of a query ('VOUT1?', 'IOUT1?', 'VSET1?', 'ISET1?')
SendQuery(t) ==
  IF DeviceOpen
    THEN /\ ncmd' = Bump(ncmd)
         /\ UNCHANGED <<tenma, lastOut>>
    ELSE Quiet

\* Tenma._receive_command: device.read(length)
Receive(t) ==
  /\ DeviceOpen
  /\ UNCHANGED <<tenma, ncmd, lastOut>>

-----------------------------------------------------------------------------
(* Threads, exceptions, the lock *)

\* The thread that runs charge_battery / discharge_battery.
E == IF script = "charger" THEN "main" ELSE "engine"

\* battery-profiler.py wraps each tick body in 'with m_pause_lock'.
Locked == script = "profiler"

Goto(t, l) ==
  /\ pc' = [pc EXCEPT ![t] = l]
  /\ sub' = [sub EXCEPT ![t] = 0]
  /\ UNCHANGED <<exc, status>>

Step(t) ==
  /\ sub' = [sub EXCEPT ![t] = @ + 1]
  /\ UNCHANGED <<pc, exc, status>>

\* Statements of battery-charger.py inside 'try:' (everything the engine does)
InTry(l) == l \notin {"check", "open", "f_out", "f_close", "f_relays", "exited"}

\* the exit status of the process, as the shell shows it
ExitCode(e) == IF e = "SystemExit" THEN "0" ELSE "1"

NoCall == [enable |-> FALSE, reverse_polarity |-> FALSE, ret |-> "none"]
NoSaved == [v |-> 0, i |-> 0]
NoSnap == [vset |-> 0, iset |-> 0, out |-> FALSE, ovp |-> FALSE,
           reverse |-> FALSE]

\* The frames of thread t are gone: its locals no longer exist (they are
\* given their initial values).
Unwind(t) ==
  /\ voltage' = [voltage EXCEPT ![t] = 0]
  /\ current' = [current EXCEPT ![t] = 0]
  /\ supply_voltage' = [supply_voltage EXCEPT ![t] = 0]
  /\ call' = [call EXCEPT ![t] = NoCall]
  /\ IF t = "main"
       THEN /\ actual_capacity' = 0
            /\ prev_capacity' = 0
            /\ prev_clock' = 0
            /\ saved' = NoSaved
            /\ snap' = NoSnap
       ELSE UNCHANGED <<actual_capacity, prev_capacity, prev_clock, saved, snap>>

\* The locals 'voltage' and 'current' of thread t are assigned again before
\* they are next read, or their function returns: their values are dropped.
Forget(t) ==
  /\ voltage' = [voltage EXCEPT ![t] = 0]
  /\ current' = [current EXCEPT ![t] = 0]

\* An exception e propagates out of thread t.  battery-charger.py runs its
\* 'finally:' block when the exception comes from inside 'try:'; in
\* battery-profiler.py nothing catches it: the thread ends and a
\* 'with m_pause_lock' it is inside releases the lock.
Raise(t, e) ==
  /\ exc' = [exc EXCEPT ![t] = e]
  /\ sub' = [sub EXCEPT ![t] = 0]
  /\ lock' = IF lock = t THEN "none" ELSE lock
  /\ Unwind(t)
  /\ IF script = "charger" /\ InTry(pc[t])
       THEN /\ pc' = [pc EXCEPT ![t] = "f_out"]
            /\ UNCHANGED status
       ELSE IF t = "main"
         THEN /\ pc' = [pc EXCEPT ![t] = "exited"]
              /\ status' = ExitCode(e)
         ELSE /\ pc' = [pc EXCEPT ![t] = "crashed"]
              /\ UNCHANGED status

\* a lock that never blocks
LockFree_always == TRUE

LockFree == lock = "none"

\* m_pause_lock.acquire() at the head of a 'with' block
Acquire(t) == LockFree /\ lock' = t

\* a 'with' block that keeps the lock when it is left
Release_kept(t) == lock' = lock

\* leaving the 'with' block
Release(t) == lock' = IF lock = t THEN "none" ELSE lock

-----------------------------------------------------------------------------
(* The instrument, as seen through measurement queries.  In mode "free" it  *)
(* may answer any value, or not answer within the read timeout; in mode    *)
(* "decay" the voltage it reports rises by one resolution step per query   *)
(* and the current it reports halves per query.                            *)

VoltAnswers == IF stub.mode = "free" THEN VoltReadings ELSE {stub.v}

CurrAnswers == IF stub.mode = "free" THEN CurrReadings ELSE {stub.i}

StubAfterVolt ==
  IF stub.mode = "free" THEN stub
  ELSE [stub EXCEPT !.v = Min(stub.v + VRes, MaxVoltK * VRes)]

StubAfterCurr ==
  IF stub.mode = "free" THEN stub
  ELSE [stub EXCEPT !.i = ((stub.i \div 2) \div IRes) * IRes]

\* float(self._receive_command(n)) fails: without a device the response is
\* None (TypeError), after a read timeout it is '' (ValueError).
ReadFails(t) ==
  /\ IF DeviceOpen THEN stub.mode = "free" /\ Receive(t) ELSE Quiet
  /\ Raise(t, "Error")

-----------------------------------------------------------------------------
(* Variable groups *)

\* what no statement of the scripts assigns
cfgv == <<script, cfg, response, files>>
filv == <<f, interruptions>>
glov == <<m_running, m_set_ovp>>
relv == <<m_relays_connected, m_relays, m_resistor, relay, nrelay>>
locv == <<voltage, current, supply_voltage>>
prov == <<actual_capacity, prev_capacity, prev_clock, now, saved, snap,
          roundTrip>>
hisv == <<cancelled, cancelPhase, visited, preSeen, cvSeen>>
\* what an exception in a thread leaves alone (see Raise)
keep == <<cfgv, filv, glov, relv, hisv, stub, now, roundTrip>>

-----------------------------------------------------------------------------
(* tenma.py: the four queries on the serial line.  A response is a sequence *)
(* of characters; a value is an integer number of thousandths (mV or mA).   *)

Queries == {"get_current", "get_voltage", "get_actual_current",
            "get_actual_voltage"}

\* the length passed to _receive_command by each query
ReadLength(q) == IF q = "get_current" THEN 6 ELSE 5

\* what the instrument answers: five characters
WireAnswers ==
  { <<"0", "0", ".", "0", "0">>,
    <<"0", "4", ".", "2", "0">>,
    <<"1", "2", ".", "3", "4">>,
    <<"3", "0", ".", "0", "0">>,
    <<"0", ".", "2", "5", "0">>,
    <<"1", ".", "0", "0", "0">> }

Digits == <<"0", "1", "2", "3", "4", "5", "6", "7", "8", "9">>

IsDigit(c) == \E d \in 1..10 : Digits[d] = c

DigitOf(c) == (CHOOSE d \in 1..10 : Digits[d] = c) - 1

RECURSIVE Number(_)
\* the number a sequence of digits denotes
Number(s) ==
  IF s = <<>> THEN 0
  ELSE 10 * Number(SubSeq(s, 1, Len(s) - 1)) + DigitOf(s[Len(s)])

RECURSIVE Pow10(_)
Pow10(n) == IF n = 0 THEN 1 ELSE 10 * Pow10(n - 1)

\* where the decimal point of s is (Len(s) + 1 when it has none)
PointAt(s) ==
  IF \E k \in 1..Len(s) : s[k] = "."
    THEN CHOOSE k \in 1..Len(s) : s[k] = "."
    ELSE Len(s) + 1

\* s is read by float(): digits with at most one point and at least one
\* digit (up to three decimals), no other character
IsFloat(s) ==
  /\ \E k \in 1..Len(s) : IsDigit(s[k])
  /\ \A k \in 1..Len(s) : IsDigit(s[k]) \/ k = PointAt(s)
  /\ Len(s) - PointAt(s) <= 3

\* the value of float(s), in thousandths
FloatValue(s) ==
  LET p == PointAt(s)
      frac == SubSeq(s, p + 1, Len(s))
  IN  1000 * Number(SubSeq(s, 1, p - 1)) + Number(frac) * Pow10(3 - Len(frac))

\* float(s): the value, or ValueError
float(s) ==
  IF IsFloat(s) THEN [ok |-> TRUE, val |-> FloatValue(s)]
                ELSE [ok |-> FALSE, val |-> 0]

NoResponse == [query |-> "none", sent |-> <<>>, got |-> <<>>,
               stage |-> "none", ok |-> FALSE, val |-> 0]

\* Tenma._receive_command: device.read(length) returns the characters that
\* arrived within the timeout of one second, at most length of them
TransportRead ==
  /\ response.stage = "sent"
  /\ \E n \in 0..Min(ReadLength(response.query), Len(response.sent)) :
       response' = [response EXCEPT !.got = SubSeq(response.sent, 1, n),
                                    !.stage = "read"]
  /\ UNCHANGED <<script, cfg, files, filv, glov, relv, locv, prov, hisv, stub,
                 call, lock, pc, sub, exc, status, tenma, ncmd, lastOut>>

\* return float(...): the value goes to the caller, or ValueError is raised
TransportReturn ==
  /\ response.stage = "read"
  /\ response' = [response EXCEPT !.stage = "returned",
                                  !.ok = float(response.got).ok,
                                  !.val = float(response.got).val]
  /\ UNCHANGED <<script, cfg, files, filv, glov, relv, locv, prov, hisv, stub,
                 call, lock, pc, sub, exc, status, tenma, ncmd, lastOut>>

-----------------------------------------------------------------------------
(* Tenma.get_status: the status byte and the fields made of it *)

RECURSIVE BitAnd(_, _)
\* a & b
BitAnd(a, b) ==
  IF a = 0 \/ b = 0 THEN 0
  ELSE (a % 2) * (b % 2) + 2 * BitAnd(a \div 2, b \div 2)

RECURSIVE ShiftRight(_, _)
\* a >> n
ShiftRight(a, n) == IF n = 0 THEN a ELSE ShiftRight(a \div 2, n - 1)

\* the dictionary get_status returns for a status byte
get_status(byte) ==
  [ch1      |-> ShiftRight(BitAnd(byte, 128), 7),
   ch2      |-> ShiftRight(BitAnd(byte, 64), 6),
   tracking |-> ShiftRight(BitAnd(byte, 48), 4),
   beep     |-> ShiftRight(BitAnd(byte, 8), 3),
   lock     |-> ShiftRight(BitAnd(byte, 4), 2),
   output   |-> ShiftRight(BitAnd(byte, 2), 1)]

\* status = self.device.read(1)[0]: the byte, or nothing within the timeout
StatusRead ==
  /\ response.query = "get_status"
  /\ response.stage = "sent"
  /\ \E n \in 0..1 :
       response' = [response EXCEPT !.got = SubSeq(response.sent, 1, n),
                                    !.stage = "read"]
  /\ UNCHANGED <<script, cfg, files, filv, glov, relv, locv, prov, hisv, stub,
                 call, lock, pc, sub, exc, status, tenma, ncmd, lastOut>>

\* the fields are computed and returned; [0] of an empty read raises
\* IndexError
StatusReturn ==
  /\ response.query = "get_status"
  /\ response.stage = "read"
  /\ IF response.got = <<>>
       THEN response' = [response EXCEPT !.stage = "IndexError"]
       ELSE response' = [response EXCEPT !.stage = "returned", !.ok = TRUE,
                                         !.val = get_status(response.got[1])]
  /\ UNCHANGED <<script, cfg, files, filv, glov, relv, locv, prov, hisv, stub,
                 call, lock, pc, sub, exc, status, tenma, ncmd, lastOut>>

-----------------------------------------------------------------------------
(* open_file of battery-profiler.py, statement by statement.  A file name   *)
(* is its three parts; a directory maps the names it holds to their lines.  *)

\* for i in range(1, 99): the last value of i
LastTry == 98

\* '-{:02d}'.format(i), for the values the loop gives i
Format02(i) == <<"-", Digits[(i \div 10) + 1], Digits[(i % 10) + 1]>>

\* 'charge-cycle' + suffix + '.csv' or 'discharge-cycle' + suffix + '.csv'
FileName(charge, suffix) ==
  [base |-> IF charge THEN "charge-cycle" ELSE "discharge-cycle",
   suffix |-> suffix, ext |-> ".csv"]

\* the header line open_file writes
Header(charge) ==
  IF charge THEN "soc (%),llut (mV),hlut (mV)" ELSE "soc (%),clut (mV)"

\* f = None
NoFile == [base |-> "None", suffix |-> <<>>, ext |-> ""]

\* no call of open_file is followed
NoFiles == [stage |-> "none", before |-> <<>>, disk |-> <<>>, i |-> 0,
            suffix |-> <<>>, f |-> NoFile]

\* one pass of the loop body: open(file_name, 'x') creates the file and the
\* loop is left, or FileExistsError is caught and the next suffix is made
OpenFileTry ==
  /\ files.stage = "loop"
  /\ files.i <= LastTry
  /\ LET file_name == FileName(~cfg.discharge, files.suffix)
     IN IF file_name \in DOMAIN files.disk
          THEN files' = [files EXCEPT !.suffix = Format02(files.i),
                                      !.i = @ + 1]
          ELSE files' = [files EXCEPT
                           !.disk = [n \in DOMAIN files.disk \cup {file_name} |->
                                       IF n = file_name THEN <<>>
                                                        ELSE files.disk[n]],
                           !.f = file_name,
                           !.stage = "write"]
  /\ UNCHANGED <<script, cfg, response, filv, glov, relv, locv, prov, hisv,
                 stub, call, lock, pc, sub, exc, status, tenma, ncmd, lastOut>>

\* range(1, 99) is used up: the loop ends with f = None
OpenFileEnd ==
  /\ files.stage = "loop"
  /\ files.i > LastTry
  /\ files' = [files EXCEPT !.stage = "write"]
  /\ UNCHANGED <<script, cfg, response, filv, glov, relv, locv, prov, hisv,
                 stub, call, lock, pc, sub, exc, status, tenma, ncmd, lastOut>>

\* f.write(header); return f.  None has no attribute 'write'.
OpenFileWrite ==
  /\ files.stage = "write"
  /\ IF files.f = NoFile
       THEN files' = [files EXCEPT !.stage = "AttributeError"]
       ELSE files' = [files EXCEPT
                        !.disk[files.f] = Append(@, Header(~cfg.discharge)),
                        !.stage = "returned"]
  /\ UNCHANGED <<script, cfg, response, filv, glov, relv, locv, prov, hisv,
                 stub, call, lock, pc, sub, exc, status, tenma, ncmd, lastOut>>

-----------------------------------------------------------------------------
(* get_battery_voltage and the measurement queries *)

SeriesResistance == m_resistor[RELAYS_ENABLE_BATTERY] + m_resistor[RELAYS_RESISTOR]

BatteryVoltage(sv, i, discharge) ==
  IF discharge THEN SeriesResistance * i - sv
               ELSE sv - SeriesResistance * i

\* voltage = get_battery_voltage(Tenma.CHANNEL_1, discharge), called by
\* thread t at statement l, continuing at statement next:
\*   0 write 'VOUT1?'   1 read the answer   2 write 'IOUT1?'
\*   3 read the answer, compute the result from m_resistor
get_battery_voltage(t, l, next, discharge) ==
  /\ pc[t] = l
  /\ \/ /\ sub[t] \in {0, 2}
        /\ SendQuery(t)
        /\ Step(t)
        /\ UNCHANGED <<cfgv, filv, glov, relv, prov, hisv, call, locv, stub, lock>>
     \/ /\ sub[t] = 1
        /\ \E v \in VoltAnswers :
             supply_voltage' = [supply_voltage EXCEPT ![t] = v]
        /\ stub' = StubAfterVolt
        /\ Receive(t)
        /\ Step(t)
        /\ UNCHANGED <<cfgv, filv, glov, relv, prov, hisv, call, voltage, current,
                       lock>>
     \/ /\ sub[t] = 3
        /\ \E i \in CurrAnswers :
             voltage' = [voltage EXCEPT ![t] =
                           BatteryVoltage(supply_voltage[t], i, discharge)]
        /\ supply_voltage' = [supply_voltage EXCEPT ![t] = 0]
        /\ stub' = StubAfterCurr
        /\ Receive(t)
        /\ Goto(t, next)
        /\ UNCHANGED <<cfgv, filv, glov, relv, prov, hisv, call, current, lock>>
     \/ /\ sub[t] \in {1, 3}
        /\ ReadFails(t)
        /\ UNCHANGED keep

\* current = m_tenma.get_actual_current(Tenma.CHANNEL_1):
\*   0 write 'IOUT1?'   1 read the answer
get_actual_current(t, l, next) ==
  /\ pc[t] = l
  /\ \/ /\ sub[t] = 0
        /\ SendQuery(t)
        /\ Step(t)
        /\ UNCHANGED <<cfgv, filv, glov, relv, prov, hisv, call, locv, stub, lock>>
     \/ /\ sub[t] = 1
        /\ \E i \in CurrAnswers : current' = [current EXCEPT ![t] = i]
        /\ stub' = StubAfterCurr
        /\ Receive(t)
        /\ Goto(t, next)
        /\ UNCHANGED <<cfgv, filv, glov, relv, prov, hisv, call, voltage,
                       supply_voltage, lock>>
     \/ /\ sub[t] = 1
        /\ ReadFails(t)
        /\ UNCHANGED keep

-----------------------------------------------------------------------------
(* attach_battery *)

CallAttach(t, enable, reverse_polarity, next) ==
  /\ pc' = [pc EXCEPT ![t] = "attach"]
  /\ sub' = [sub EXCEPT ![t] = 0]
  /\ call' = [call EXCEPT ![t] = [enable |-> enable,
                                  reverse_polarity |-> reverse_polarity,
                                  ret |-> next]]
  /\ UNCHANGED <<exc, status>>

Return(t) ==
  /\ pc' = [pc EXCEPT ![t] = call[t].ret]
  /\ sub' = [sub EXCEPT ![t] = 0]
  /\ call' = [call EXCEPT ![t] = NoCall]
  /\ UNCHANGED <<exc, status>>

\* attach_battery without its 'if not m_relays_connected: return'
AttachOpen_noGuard(t) ==
  /\ pc[t] = "attach" /\ sub[t] = 0
  /\ Quiet
  /\ UNCHANGED <<cfgv, filv, glov, hisv, stub, relay, m_resistor>>
  /\ IF FALSE
       THEN /\ Return(t)
            /\ UNCHANGED <<m_relays_connected, m_relays, nrelay, lock, locv, prov>>
       ELSE IF m_relays[0] # "None"
         THEN /\ Step(t)
              /\ UNCHANGED <<m_relays_connected, m_relays, nrelay, lock, call,
                             locv, prov>>
         ELSE \/ /\ m_relays' = [i \in Channels |-> "Open"]
                 /\ nrelay' = Bump(nrelay)
                 /\ Step(t)
                 /\ UNCHANGED <<m_relays_connected, lock, call, locv, prov>>
              \/ \* openWaitForAttachment raises PhidgetException
                 /\ nrelay' = Bump(nrelay)
                 /\ IF script = "charger"
                      THEN /\ m_relays' = [i \in Channels |-> "None"]
                           /\ m_relays_connected' = FALSE
                           /\ Return(t)
                           /\ UNCHANGED <<lock, locv, prov>>
                      ELSE /\ m_relays' = [i \in Channels |->
                                             IF i = 0 THEN "Open" ELSE "None"]
                           /\ Raise(t, "PhidgetException")
                           /\ UNCHANGED <<m_relays_connected, now, roundTrip>>

\* 'if not m_relays_connected: return' and the opening of the four channels
AttachOpen(t) ==
  /\ pc[t] = "attach" /\ sub[t] = 0
  /\ Quiet
  /\ UNCHANGED <<cfgv, filv, glov, hisv, stub, relay, m_resistor>>
  /\ IF ~m_relays_connected
       THEN /\ Return(t)
            /\ UNCHANGED <<m_relays_connected, m_relays, nrelay, lock, locv, prov>>
       ELSE IF m_relays[0] # "None"
         THEN /\ Step(t)
              /\ UNCHANGED <<m_relays_connected, m_relays, nrelay, lock, call,
                             locv, prov>>
         ELSE \/ /\ m_relays' = [i \in Channels |-> "Open"]
                 /\ nrelay' = Bump(nrelay)
                 /\ Step(t)
                 /\ UNCHANGED <<m_relays_connected, lock, call, locv, prov>>
              \/ \* openWaitForAttachment raises PhidgetException
                 /\ nrelay' = Bump(nrelay)
                 /\ IF script = "charger"
                      THEN /\ m_relays' = [i \in Channels |-> "None"]
                           /\ m_relays_connected' = FALSE
                           /\ Return(t)
                           /\ UNCHANGED <<lock, locv, prov>>
                      ELSE /\ m_relays' = [i \in Channels |->
                                             IF i = 0 THEN "Open" ELSE "None"]
                           /\ Raise(t, "PhidgetException")
                           /\ UNCHANGED <<m_relays_connected, now, roundTrip>>

\* m_relays[RELAYS_ENABLE_BATTERY].setState(False); time.sleep(0.1)
AttachDisable(t) ==
  /\ pc[t] = "attach" /\ sub[t] = 1
  /\ relay' = [relay EXCEPT ![RELAYS_ENABLE_BATTERY] = FALSE]
  /\ nrelay' = Bump(nrelay)
  /\ Quiet
  /\ Step(t)
  /\ UNCHANGED <<cfgv, filv, glov, locv, prov, hisv, stub, lock, call,
                 m_relays_connected, m_relays, m_resistor>>

\* the three setState calls of the polarity and resistor relays
AttachPolarity(t) ==
  /\ pc[t] = "attach" /\ sub[t] = 2
  /\ relay' = [relay EXCEPT ![RELAYS_POS_CON] = call[t].reverse_polarity,
                            ![RELAYS_NEG_CON] = call[t].reverse_polarity,
                            ![RELAYS_RESISTOR] = ~call[t].reverse_polarity]
  /\ nrelay' = Bump(nrelay)
  /\ Quiet
  /\ Step(t)
  /\ UNCHANGED <<cfgv, filv, glov, locv, prov, hisv, stub, lock, call,
                 m_relays_connected, m_relays, m_resistor>>

\* m_resistor[RELAYS_RESISTOR] = m_series_discharge_resistor or 0
AttachResistor(t) ==
  /\ pc[t] = "attach" /\ sub[t] = 3
  /\ m_resistor' = [m_resistor EXCEPT ![RELAYS_RESISTOR] =
                      IF call[t].reverse_polarity THEN cfg.r_dis ELSE 0]
  /\ Quiet
  /\ Step(t)
  /\ UNCHANGED <<cfgv, filv, glov, locv, prov, hisv, stub, lock, call,
                 m_relays_connected, m_relays, relay, nrelay>>

\* m_relays[RELAYS_ENABLE_BATTERY].setState(enable)
AttachEnable(t) ==
  /\ pc[t] = "attach" /\ sub[t] = 4
  /\ relay' = [relay EXCEPT ![RELAYS_ENABLE_BATTERY] = call[t].enable]
  /\ nrelay' = Bump(nrelay)
  /\ Quiet
  /\ Step(t)
  /\ UNCHANGED <<cfgv, filv, glov, locv, prov, hisv, stub, lock, call,
                 m_relays_connected, m_relays, m_resistor>>

\* m_resistor[RELAYS_ENABLE_BATTERY] = ...; time.sleep(0.1); return
AttachRecord(t) ==
  /\ pc[t] = "attach" /\ sub[t] = 5
  /\ m_resistor' = [m_resistor EXCEPT ![RELAYS_ENABLE_BATTERY] =
                      IF call[t].enable THEN cfg.r_conn
                                        ELSE OPEN_CIRCUIT_RESISTANCE]
  /\ Quiet
  /\ Return(t)
  /\ UNCHANGED <<cfgv, filv, glov, locv, prov, hisv, stub, lock,
                 m_relays_connected, m_relays, relay, nrelay>>

attach_battery(t) ==
  \/ AttachOpen(t)
  \/ AttachDisable(t)
  \/ AttachPolarity(t)
  \/ AttachResistor(t)
  \/ AttachEnable(t)
  \/ AttachRecord(t)

-----------------------------------------------------------------------------
(* Statements of the engine: charge_battery and discharge_battery.  Labels *)
(* cNNN / dNNN are the line numbers of battery-profiler.py; the same       *)
(* statements of battery-charger.py differ only where noted.               *)

\* A statement that writes one command to the supply.
Command(t, l, next, send) ==
  /\ pc[t] = l
  /\ send
  /\ Goto(t, next)
  /\ UNCHANGED <<cfgv, filv, glov, relv, locv, prov, hisv, stub, call, lock>>

\* 'with m_pause_lock:' at the head of a tick body
WithEnter(t, l, next) ==
  /\ pc[t] = l
  /\ Acquire(t)
  /\ Quiet
  /\ Goto(t, next)
  /\ UNCHANGED <<cfgv, filv, glov, relv, locv, prov, hisv, stub, call>>

\* end of the 'with' block; time.sleep(1)
WithExit(t, l, next) ==
  /\ pc[t] = l
  /\ Release(t)
  /\ Quiet
  /\ Goto(t, next)
  /\ UNCHANGED <<cfgv, filv, glov, relv, locv, prov, hisv, stub, call>>

\* Where a loop body starts / where it goes back to the loop test
Body(acquire, body) == IF Locked THEN acquire ELSE body
Back(release, test) == IF Locked THEN release ELSE test

Enter(phase) == visited' = Append(visited, phase)

\* The phase the engine is in at statement l: from the first measurement of
\* the phase to the 'if m_running:' that follows its loop.
PhaseAt(l) ==
  IF l \in {"c171", "c172", "c173", "c174", "c175", "c177"} THEN "Precharge"
  ELSE IF l \in {"c180", "c185", "c181", "c182", "c183", "c184", "c186", "c187"}
    THEN "ConstantCurrent"
  ELSE IF l \in {"c190", "c191", "c192", "c193", "c195", "c196", "c199"}
    THEN "ConstantVoltage"
  ELSE IF l \in {"d230", "d231", "d232", "d233", "d234", "d236"}
    THEN "Discharge"
  ELSE "none"

(* ---- charge_battery: Idle -> Precharge ---- *)

ChargeOutputOff == Command(E, "c161", "c162", set_output(E, FALSE))

ChargeSetCurrent == Command(E, "c162", "c163", set_current(E, cfg.pre_i))

ChargeSetVoltage == Command(E, "c163", "c164", set_voltage(E, cfg.cv))

ChargeSetOcp == Command(E, "c164", "c165", set_ocp(E, FALSE))

ChargeSetOvp ==
  /\ pc[E] = "c165"
  /\ m_set_ovp' = FALSE
  /\ set_ovp(E, FALSE)
  /\ Goto(E, "c168")
  /\ UNCHANGED <<cfgv, filv, m_running, relv, locv, prov, hisv, stub, call, lock>>

ChargeAttach ==
  /\ pc[E] = "c168"
  /\ CallAttach(E, TRUE, FALSE, "c169")
  /\ Quiet
  /\ UNCHANGED <<cfgv, filv, glov, relv, locv, prov, hisv, stub, lock>>

ChargeOutputOn ==
  /\ pc[E] = "c169"
  /\ set_output(E, TRUE)
  /\ Enter("Precharge")
  /\ Goto(E, "c171")
  /\ UNCHANGED <<cfgv, filv, glov, relv, locv, prov, stub, call, lock,
                 cancelled, cancelPhase, preSeen, cvSeen>>

(* ---- Precharge ---- *)

\* the loop test with the boundary on the wrong side
PrechargeContinue_inclusive(v) == v <= cfg.pre_v /\ m_running

PrechargeContinue(v) == v < cfg.pre_v /\ m_running

PrechargeFirst == get_battery_voltage(E, "c171", "c172", cfg.discharge)

PrechargeCheck ==
  /\ pc[E] = "c172"
  /\ preSeen' = IF voltage[E] >= cfg.pre_v THEN Min(preSeen + 1, 2) ELSE preSeen
  /\ IF PrechargeContinue(voltage[E])
       THEN Goto(E, Body("c173", "c174")) /\ Forget(E)
       ELSE Goto(E, "c177") /\ UNCHANGED <<voltage, current>>
  /\ Quiet
  /\ UNCHANGED <<cfgv, filv, glov, relv, supply_voltage, prov, stub, call, lock,
                 cancelled, cancelPhase, visited, cvSeen>>

PrechargeAcquire == WithEnter(E, "c173", "c174")

PrechargeTick ==
  get_battery_voltage(E, "c174", Back("c175", "c172"), cfg.discharge)

PrechargeRelease == WithExit(E, "c175", "c172")

(* ---- Precharge -> ConstantCurrent ---- *)

\* 'if not m_running:' in place of 'if m_running:'
ChargeRaiseTest_inverted ==
  /\ pc[E] = "c177"
  /\ IF ~m_running THEN Goto(E, "c178") /\ UNCHANGED <<voltage, current>>
                   ELSE Goto(E, "c180") /\ Forget(E)
  /\ Quiet
  /\ UNCHANGED <<cfgv, filv, glov, relv, supply_voltage, prov, hisv, stub, call,
                 lock>>

ChargeRaiseTest ==
  /\ pc[E] = "c177"
  /\ IF m_running THEN Goto(E, "c178") /\ UNCHANGED <<voltage, current>>
                  ELSE Goto(E, "c180") /\ Forget(E)
  /\ Quiet
  /\ UNCHANGED <<cfgv, filv, glov, relv, supply_voltage, prov, hisv, stub, call,
                 lock>>

ChargeRaise ==
  /\ pc[E] = "c178"
  /\ set_current(E, cfg.cc)
  /\ Enter("ConstantCurrent")
  /\ Forget(E)
  /\ Goto(E, "c180")
  /\ UNCHANGED <<cfgv, filv, glov, relv, supply_voltage, prov, stub, call, lock,
                 cancelled, cancelPhase, preSeen, cvSeen>>

(* ---- ConstantCurrent ---- *)

\* battery-charger.py line 186
CcContinueCharger(v, i) ==
  v < cfg.cv /\ 100 * i >= 95 * cfg.cc /\ m_running

\* battery-profiler.py line 181
CcContinueProfiler(v) == v < cfg.cv /\ m_running

CcContinue ==
  IF script = "charger" THEN CcContinueCharger(voltage[E], current[E])
                        ELSE CcContinueProfiler(voltage[E])

CcFirst ==
  get_battery_voltage(E, "c180",
                      IF script = "charger" THEN "c185" ELSE "c181",
                      cfg.discharge)

\* battery-charger.py line 185 (not in battery-profiler.py)
CcFirstCurrent == get_actual_current(E, "c185", "c181")

CcCheck ==
  /\ pc[E] = "c181"
  /\ IF CcContinue
       THEN Goto(E, Body("c182", "c183")) /\ UNCHANGED visited
       ELSE /\ Goto(E, "c190")
            /\ IF m_running THEN Enter("ConstantVoltage") ELSE UNCHANGED visited
  /\ Forget(E)
  /\ Quiet
  /\ UNCHANGED <<cfgv, filv, glov, relv, supply_voltage, prov, stub, call, lock,
                 cancelled, cancelPhase, preSeen, cvSeen>>

CcAcquire == WithEnter(E, "c182", "c183")

CcTickVoltage == get_battery_voltage(E, "c183", "c184", cfg.discharge)

CcTickCurrent == get_actual_current(E, "c184", "c186")

\* a setpoint that ignores the measured current
Rebias_noDrop(i) == cfg.cv

\* the voltage written each tick
Rebias(i) == cfg.cv + cfg.r_conn * i

CcTickSet ==
  Command(E, "c186", Back("c187", "c181"), set_voltage(E, Rebias(current[E])))

CcRelease == WithExit(E, "c187", "c181")

(* ---- ConstantVoltage ---- *)

\* the loop test with the boundary on the wrong side
CvContinue_inclusive(i) == i >= cfg.eoc /\ m_running

CvContinue(i) == i > cfg.eoc /\ m_running

CvFirst == get_actual_current(E, "c190", "c191")

CvCheck ==
  /\ pc[E] = "c191"
  /\ cvSeen' = IF current[E] <= cfg.eoc THEN Min(cvSeen + 1, 2) ELSE cvSeen
  /\ IF CvContinue(current[E])
       THEN Goto(E, Body("c192", "c193")) /\ Forget(E)
       ELSE Goto(E, "c199") /\ UNCHANGED <<voltage, current>>
  /\ Quiet
  /\ UNCHANGED <<cfgv, filv, glov, relv, supply_voltage, prov, stub, call, lock,
                 cancelled, cancelPhase, visited, preSeen>>

CvAcquire == WithEnter(E, "c192", "c193")

CvTickCurrent == get_actual_current(E, "c193", "c195")

CvTickSet ==
  Command(E, "c195", Back("c196", "c191"), set_voltage(E, Rebias(current[E])))

CvRelease == WithExit(E, "c196", "c191")

(* ---- ConstantVoltage -> Done ---- *)

\* the completion report without its 'if m_running:'
ChargeDoneTest_unguarded ==
  /\ pc[E] = "c199"
  /\ Goto(E, "c200")
  /\ Quiet
  /\ UNCHANGED <<cfgv, filv, glov, relv, locv, prov, hisv, stub, call, lock>>

ChargeDoneTest ==
  /\ pc[E] = "c199"
  /\ IF m_running THEN Goto(E, "c200") ELSE Goto(E, "c204")
  /\ Quiet
  /\ UNCHANGED <<cfgv, filv, glov, relv, locv, prov, hisv, stub, call, lock>>

\* m_running = False; (time.sleep(m_polling_delay);) print('battery fully charged')
ChargeDone ==
  /\ pc[E] = "c200"
  /\ m_running' = FALSE
  /\ Enter("Done")
  /\ Goto(E, "c204")
  /\ Quiet
  /\ UNCHANGED <<cfgv, filv, m_set_ovp, relv, locv, prov, stub, call, lock,
                 cancelled, cancelPhase, preSeen, cvSeen>>

\* where the engine function returns to
EngineReturn == IF script = "charger" THEN "f_out" ELSE "done"

\* the last statement of an engine function, at label l
EngineOutputOff(l) ==
  /\ pc[E] = l
  /\ set_output(E, FALSE)
  /\ Forget(E)
  /\ Goto(E, EngineReturn)
  /\ UNCHANGED <<cfgv, filv, glov, relv, prov, hisv, stub, call, lock,
                 supply_voltage>>

ChargeOutputOffFinal == EngineOutputOff("c204")

(* ---- discharge_battery ---- *)

DischargeOutputOff == Command(E, "d211", "d212", set_output(E, FALSE))

DischargeSetCurrent == Command(E, "d212", "d213", set_current(E, cfg.dis_i))

\* battery-profiler.py sets the empty level itself when there is no
\* discharge resistor; battery-charger.py always uses the formula.
DischargeVoltage ==
  IF script = "profiler" /\ cfg.r_dis = 0
    THEN cfg.empty_v
    ELSE (cfg.r_dis + cfg.r_conn) * cfg.dis_i - cfg.cv + (cfg.cv - cfg.empty_v)

DischargeOvp == ~(script = "profiler" /\ cfg.r_dis = 0)

DischargeSetVoltage ==
  Command(E, "d213", "d216", set_voltage(E, DischargeVoltage))

DischargeSetOvp ==
  /\ pc[E] = "d216"
  /\ m_set_ovp' = DischargeOvp
  /\ set_ovp(E, DischargeOvp)
  /\ Goto(E, "d225")
  /\ UNCHANGED <<cfgv, filv, m_running, relv, locv, prov, hisv, stub, call, lock>>

DischargeSetOcp == Command(E, "d225", "d227", set_ocp(E, FALSE))

DischargeAttach ==
  /\ pc[E] = "d227"
  /\ CallAttach(E, TRUE, TRUE, "d228")
  /\ Quiet
  /\ UNCHANGED <<cfgv, filv, glov, relv, locv, prov, hisv, stub, lock>>

DischargeOutputOn ==
  /\ pc[E] = "d228"
  /\ set_output(E, TRUE)
  /\ Enter("Discharge")
  /\ Goto(E, "d230")
  /\ UNCHANGED <<cfgv, filv, glov, relv, locv, prov, stub, call, lock,
                 cancelled, cancelPhase, preSeen, cvSeen>>

\* the loop test with the boundary on the wrong side
DischargeContinue_inclusive(v) == v >= cfg.empty_v /\ m_running

DischargeContinue(v) == v > cfg.empty_v /\ m_running

DischargeFirst == get_battery_voltage(E, "d230", "d231", cfg.discharge)

DischargeCheck ==
  /\ pc[E] = "d231"
  /\ IF DischargeContinue(voltage[E])
       THEN Goto(E, Body("d232", "d233"))
       ELSE Goto(E, "d236")
  /\ Forget(E)
  /\ Quiet
  /\ UNCHANGED <<cfgv, filv, glov, relv, supply_voltage, prov, hisv, stub, call,
                 lock>>

DischargeAcquire == WithEnter(E, "d232", "d233")

DischargeTick ==
  get_battery_voltage(E, "d233", Back("d234", "d231"), cfg.discharge)

DischargeRelease == WithExit(E, "d234", "d231")

DischargeDoneTest ==
  /\ pc[E] = "d236"
  /\ IF m_running THEN Goto(E, "d237") ELSE Goto(E, "d241")
  /\ Quiet
  /\ UNCHANGED <<cfgv, filv, glov, relv, locv, prov, hisv, stub, call, lock>>

DischargeDone ==
  /\ pc[E] = "d237"
  /\ m_running' = FALSE
  /\ Enter("Done")
  /\ Goto(E, "d241")
  /\ Quiet
  /\ UNCHANGED <<cfgv, filv, m_set_ovp, relv, locv, prov, stub, call, lock,
                 cancelled, cancelPhase, preSeen, cvSeen>>

DischargeOutputOffFinal == EngineOutputOff("d241")

-----------------------------------------------------------------------------
(* Start-up, common to both scripts *)

\* The current ceiling test: sys.exit(-1) on a violation.
ConfigCheck ==
  /\ pc["main"] = "check"
  /\ IF CurrentCeilingExceeded(cfg)
       THEN /\ pc' = [pc EXCEPT !["main"] = "exited"]
            /\ status' = "255"
            /\ UNCHANGED <<sub, exc>>
       ELSE Goto("main", "open")
  /\ Quiet
  /\ UNCHANGED <<cfgv, filv, glov, relv, locv, prov, hisv, stub, call, lock>>

\* What device.read(18) returns after '*IDN?': nothing within the timeout, a
\* truncated answer, the answer of an instrument of another make, the answer
\* of a TENMA supply.
IdnAnswers ==
  { <<>>,
    <<"T", "E", "N", "M">>,
    <<"K", "O", "R", "A", "D", " ", "K", "A", "3", "0", "0", "5", "P", " ", "V", "2", ".", "0">>,
    <<"T", "E", "N", "M", "A", " ", "7", "2", "-", "2", "5", "4", "0", " ", "V", "2", ".", "1">> }

StartsWith(s, prefix) ==
  /\ Len(prefix) <= Len(s)
  /\ \A k \in 1..Len(prefix) : s[k] = prefix[k]

\* a check that accepts every answer
check_device_type_anyId(id) == 0

\* Tenma.check_device_type, given the answer to '*IDN?': 0 or -1
check_device_type(id) ==
  IF id = <<>> \/ Len(id) < 5 THEN -1
  ELSE IF StartsWith(id, <<"T", "E", "N", "M", "A">>) THEN 0
  ELSE -1

AfterOpen == IF script = "charger" THEN "run" ELSE "p338"

\* res = m_tenma.open(...); if res != 0: sys.exit(-res)
\* Tenma.open: the port opens or not; unless skip_check, '*IDN?' is written
\* and the 18 character answer must start with 'TENMA'.
Open ==
  /\ pc["main"] = "open"
  /\ UNCHANGED <<cfgv, filv, glov, relv, locv, prov, hisv, stub, call, lock, lastOut>>
  /\ \/ \* serial.Serial raises SerialException
        /\ pc' = [pc EXCEPT !["main"] = "exited"]
        /\ status' = "1"
        /\ UNCHANGED <<sub, exc, tenma, ncmd>>
     \/ /\ cfg.skip_check
        /\ tenma' = [tenma EXCEPT !.device = "Open"]
        /\ Goto("main", AfterOpen)
        /\ UNCHANGED ncmd
     \/ /\ ~cfg.skip_check
        /\ ncmd' = Bump(ncmd)
        /\ \E id \in IdnAnswers :
             /\ tenma' = [tenma EXCEPT !.device = "Open", !.device_id = id]
             /\ IF check_device_type(id) = 0
                  THEN Goto("main", AfterOpen)
                  ELSE \* sys.exit(-res)
                       /\ pc' = [pc EXCEPT !["main"] = "exited"]
                       /\ status' = "1"
                       /\ UNCHANGED <<sub, exc>>

-----------------------------------------------------------------------------
(* battery-charger.py: the try / finally around the engine *)

Run ==
  /\ pc["main"] = "run"
  /\ Goto("main", IF cfg.discharge THEN "d211" ELSE "c161")
  /\ Quiet
  /\ UNCHANGED <<cfgv, filv, glov, relv, locv, prov, hisv, stub, call, lock>>

\* finally: m_tenma.set_output(False)
FinallyOutputOff == Command("main", "f_out", "f_close", set_output("main", FALSE))

\* Tenma.close
TenmaClosed == [tenma EXCEPT !.device = "None"]

\* finally: m_tenma.close()
FinallyClose ==
  /\ pc["main"] = "f_close"
  /\ tenma' = TenmaClosed
  /\ Goto("main", "f_relays")
  /\ UNCHANGED <<cfgv, filv, glov, relv, locv, prov, hisv, stub, call, lock,
                 ncmd, lastOut>>

\* for i in range(3): m_relays[i].close()
RelaysClosed ==
  [i \in Channels |-> IF i < 3 /\ m_relays[i] # "None" THEN "Closed"
                                                     ELSE m_relays[i]]

\* finally: close the relay handles; then the process ends, with the
\* pending exception if there is one
FinallyRelays ==
  /\ pc["main"] = "f_relays"
  /\ m_relays' = RelaysClosed
  /\ nrelay' = IF m_relays[0] # "None" THEN Bump(nrelay) ELSE nrelay
  /\ pc' = [pc EXCEPT !["main"] = "exited"]
  /\ status' = IF exc["main"] = "Error" THEN "1" ELSE "0"
  /\ Quiet
  /\ UNCHANGED <<cfgv, filv, glov, locv, prov, hisv, stub, call, lock, sub, exc,
                 m_relays_connected, m_resistor, relay>>

-----------------------------------------------------------------------------
(* SIGINT *)

EngineRunning == pc["engine"] \notin {"idle", "done", "crashed"}

ProcessAlive == pc["main"] # "exited" \/ EngineRunning

\* signal_handler: m_running = False; sys.exit(0).  The handler runs in the
\* main thread, between two of its statements; the operator aborts a run
\* once.
Cancel ==
  /\ ~cancelled
  /\ ProcessAlive
  /\ cancelled' = TRUE
  /\ cancelPhase' = PhaseAt(pc[E])
  /\ m_running' = FALSE
  /\ IF pc["main"] # "exited"
       THEN Raise("main", "SystemExit")
       ELSE UNCHANGED <<pc, sub, exc, status, lock, call, locv,
                        actual_capacity, prev_capacity, prev_clock, saved, snap>>
  /\ Quiet
  /\ UNCHANGED <<cfgv, filv, m_set_ovp, relv, stub, now, roundTrip,
                 visited, preSeen, cvSeen>>

-----------------------------------------------------------------------------
(* Initial states *)

FreeStub == [mode |-> "free", v |-> 0, i |-> 0]

\* the instrument of the end-to-end scenario: voltage rising from 0, current
\* decaying from the largest value
DecayStub == [mode |-> "decay", v |-> 0, i |-> MaxCurrK * 2 * IRes]

InitCommon ==
  /\ m_running = TRUE
  /\ m_set_ovp = FALSE
  /\ m_relays_connected = cfg.relays
  /\ m_relays = [i \in Channels |-> "None"]
  /\ m_resistor = [i \in Channels |-> 0]
  /\ relay = [i \in Channels |-> FALSE]
  /\ tenma = [device |-> "None", device_id |-> <<>>, vset |-> 0, iset |-> 0,
              out |-> FALSE, ovp |-> FALSE, ocp |-> FALSE]
  /\ lock = "none"
  /\ pc = [t \in Threads |-> IF t = "main" THEN "check" ELSE "idle"]
  /\ sub = [t \in Threads |-> 0]
  /\ call = [t \in Threads |-> NoCall]
  /\ voltage = [t \in Threads |-> 0]
  /\ current = [t \in Threads |-> 0]
  /\ supply_voltage = [t \in Threads |-> 0]
  /\ exc = [t \in Threads |-> "none"]
  /\ status = "running"
  /\ actual_capacity = 0
  /\ prev_capacity = 0
  /\ prev_clock = 0
  /\ now = 0
  /\ saved = NoSaved
  /\ cancelled = FALSE
  /\ cancelPhase = "none"
  /\ visited = <<>>
  /\ preSeen = 0
  /\ cvSeen = 0
  /\ ncmd = 0
  /\ nrelay = 0
  /\ lastOut = "none"
  /\ snap = NoSnap
  /\ roundTrip = "none"
  /\ f = <<>>
  /\ interruptions = 0

InitCharger ==
  /\ script = "charger"
  /\ response = NoResponse
  /\ files = NoFiles
  /\ cfg \in Configs
  /\ stub \in {FreeStub, DecayStub}
  /\ InitCommon

-----------------------------------------------------------------------------
(* The engine, as one action *)

ChargeStart ==
  \/ ChargeOutputOff \/ ChargeSetCurrent \/ ChargeSetVoltage
  \/ ChargeSetOcp \/ ChargeSetOvp \/ ChargeAttach \/ ChargeOutputOn

Precharge ==
  \/ PrechargeFirst \/ PrechargeCheck \/ PrechargeTick
  \/ ChargeRaiseTest \/ ChargeRaise

ConstantCurrent ==
  \/ CcFirst \/ CcCheck \/ CcTickVoltage \/ CcTickCurrent \/ CcTickSet

ConstantVoltage ==
  \/ CvFirst \/ CvCheck \/ CvTickCurrent \/ CvTickSet
  \/ ChargeDoneTest \/ ChargeDone \/ ChargeOutputOffFinal

charge_battery == ChargeStart \/ Precharge \/ ConstantCurrent \/ ConstantVoltage

DischargeStart ==
  \/ DischargeOutputOff \/ DischargeSetCurrent \/ DischargeSetVoltage
  \/ DischargeSetOvp \/ DischargeSetOcp \/ DischargeAttach \/ DischargeOutputOn

Discharge ==
  \/ DischargeFirst \/ DischargeCheck \/ DischargeTick
  \/ DischargeDoneTest \/ DischargeDone \/ DischargeOutputOffFinal

discharge_battery == DischargeStart \/ Discharge

\* the 'with m_pause_lock' entries and exits of battery-profiler.py
EngineLocking ==
  \/ PrechargeAcquire \/ PrechargeRelease
  \/ CcAcquire \/ CcRelease
  \/ CvAcquire \/ CvRelease
  \/ DischargeAcquire \/ DischargeRelease

-----------------------------------------------------------------------------
(* battery-charger.py *)

\* what both scripts have: the start-up, the engine (run by thread E) and
\* the main thread's calls of attach_battery
Shared ==
  \/ ConfigCheck
  \/ Open
  \/ charge_battery
  \/ discharge_battery
  \/ attach_battery("main")

\* what only battery-charger.py has
ChargerOwn ==
  \/ Run
  \/ CcFirstCurrent
  \/ FinallyOutputOff
  \/ FinallyClose
  \/ FinallyRelays

ChargerMain == Shared \/ ChargerOwn

NextCharger == ChargerMain \/ Cancel

SpecCharger == InitCharger /\ [][NextCharger]_vars

\* the interpreter keeps running the main thread
FairCharger == SpecCharger /\ WF_vars(ChargerMain)

-----------------------------------------------------------------------------
(* battery-profiler.py: profile_battery and measure_battery_voltage, run by *)
(* the main thread.  Labels pNNN / mNNN are line numbers.                  *)

\* time.perf_counter(): a monotonic clock, followed up to MaxClock while the
\* main thread polls
ClockValues == now..(IF now > MaxClock THEN now ELSE MaxClock)

\* the clock at the end of an interruption: followed one tick further, an
\* interruption can begin at MaxClock
ClockAfterPause == now..(MaxClock + 1)

\* an accumulator that ignores the elapsed time
Accumulate_noElapsed(acc, v, i, dt) == acc + v * i

\* actual_capacity += voltage * current * (clock - prev_clock) / 3600
Accumulate(acc, v, i, dt) == acc + v * i * dt

\* open_file: the new file holds the header line
open_file(charge) ==
  IF charge THEN <<"soc (%),llut (mV),hlut (mV)">>
            ELSE <<"soc (%),clut (mV)">>

\* lines 338-356: open the results file, initialise the accumulator, start
\* the engine thread
ProfileStart ==
  /\ pc["main"] = "p338"
  /\ actual_capacity' = 0
  /\ prev_capacity' = 0
  /\ \E c \in ClockValues : now' = c /\ prev_clock' = c
  /\ pc' = [pc EXCEPT !["main"] = "p358",
                      !["engine"] = IF cfg.discharge THEN "d211" ELSE "c161"]
  /\ Quiet
  /\ f' = open_file(~cfg.discharge)
  /\ UNCHANGED <<cfgv, glov, relv, locv, hisv, stub, call, lock, sub, exc,
                 status, saved, snap, roundTrip, interruptions>>

\* while m_running:
ProfileLoopTest ==
  /\ pc["main"] = "p358"
  /\ IF m_running THEN Goto("main", "p359") ELSE Goto("main", "p382")
  /\ roundTrip' = "none"
  /\ Quiet
  /\ UNCHANGED <<cfgv, filv, glov, relv, locv, hisv, stub, call, lock,
                 actual_capacity, prev_capacity, prev_clock, now, saved, snap>>

PollVoltage == get_battery_voltage("main", "p359", "p360", cfg.discharge)

\* if voltage == 0: time.sleep(0.1); continue.  The clock moves on while the
\* thread sleeps; prev_clock is not assigned.
PollZero ==
  /\ pc["main"] = "p360"
  /\ IF voltage["main"] = 0
       THEN /\ now' \in ClockValues
            /\ Goto("main", "p358")
       ELSE /\ UNCHANGED now
            /\ Goto("main", "p364")
  /\ Quiet
  /\ UNCHANGED <<cfgv, filv, glov, relv, locv, hisv, stub, call, lock,
                 actual_capacity, prev_capacity, prev_clock, saved, snap,
                 roundTrip>>

PollCurrent == get_actual_current("main", "p364", "p365")

StepCrossed(acc, prev) == acc - prev >= cfg.delta

\* lines 365-379: read the clock, integrate, test the step; either start an
\* interruption or sleep and go round the loop
Integrate ==
  /\ pc["main"] = "p365"
  /\ \E c \in ClockValues :
       /\ now' = c
       /\ prev_clock' = c
       /\ actual_capacity' = Accumulate(actual_capacity, voltage["main"],
                                        current["main"], c - prev_clock)
  /\ actual_capacity' \in -MaxEnergy..MaxEnergy
  /\ IF StepCrossed(actual_capacity', prev_capacity)
       THEN /\ prev_capacity' = actual_capacity'
            /\ Goto("main", "m302")
       ELSE /\ UNCHANGED prev_capacity
            /\ Goto("main", "p358")
  /\ Forget("main")
  /\ Quiet
  /\ UNCHANGED <<cfgv, filv, glov, relv, hisv, stub, call, lock, saved, snap,
                 roundTrip, supply_voltage>>

\* what an interruption is meant to leave as it found it
SupplyState ==
  [vset |-> tenma.vset, iset |-> tenma.iset, out |-> tenma.out,
   ovp |-> tenma.ovp, reverse |-> relay[RELAYS_POS_CON]]

\* with m_pause_lock:
MeasureAcquire ==
  /\ pc["main"] = "m302"
  /\ Acquire("main")
  /\ snap' = SupplyState
  /\ roundTrip' = "none"
  /\ Goto("main", "m303")
  /\ Quiet
  /\ UNCHANGED <<cfgv, filv, glov, relv, locv, hisv, stub, call, actual_capacity,
                 prev_capacity, prev_clock, now, saved>>

\* set_voltage = m_tenma.get_voltage(...): 0 write 'VSET1?'  1 read
MeasureSaveVoltage ==
  /\ pc["main"] = "m303"
  /\ \/ /\ sub["main"] = 0
        /\ SendQuery("main")
        /\ Step("main")
        /\ UNCHANGED <<cfgv, filv, glov, relv, locv, prov, hisv, stub, call, lock>>
     \/ /\ sub["main"] = 1
        /\ Receive("main")
        /\ saved' = [saved EXCEPT !.v = tenma.vset]
        /\ Goto("main", "m304")
        /\ UNCHANGED <<cfgv, filv, glov, relv, locv, hisv, stub, call, lock,
                       actual_capacity, prev_capacity, prev_clock, now, snap,
                       roundTrip>>
     \/ /\ sub["main"] = 1
        /\ ReadFails("main")
        /\ UNCHANGED keep

\* set_current = m_tenma.get_current(...): 0 write 'ISET1?'  1 read
MeasureSaveCurrent ==
  /\ pc["main"] = "m304"
  /\ \/ /\ sub["main"] = 0
        /\ SendQuery("main")
        /\ Step("main")
        /\ UNCHANGED <<cfgv, filv, glov, relv, locv, prov, hisv, stub, call, lock>>
     \/ /\ sub["main"] = 1
        /\ Receive("main")
        /\ saved' = [saved EXCEPT !.i = tenma.iset]
        /\ Goto("main", "m307")
        /\ UNCHANGED <<cfgv, filv, glov, relv, locv, hisv, stub, call, lock,
                       actual_capacity, prev_capacity, prev_clock, now, snap,
                       roundTrip>>
     \/ /\ sub["main"] = 1
        /\ ReadFails("main")
        /\ UNCHANGED keep

\* a call of attach_battery inside the interruption
MeasureAttach(l, enable, reverse_polarity, next) ==
  /\ pc["main"] = l
  /\ CallAttach("main", enable, reverse_polarity, next)
  /\ Quiet
  /\ UNCHANGED <<cfgv, filv, glov, relv, locv, prov, hisv, stub, lock>>

\* attach_battery(enable=False)
MeasureDetach == MeasureAttach("m307", FALSE, FALSE, "m308")

\* m_tenma.set_output(False); time.sleep(decay_time)
MeasureOutputOff == Command("main", "m308", "m312", set_output("main", FALSE))

MeasureOvpOff == Command("main", "m312", "m313", set_ovp("main", FALSE))

MeasureMaxVoltage ==
  Command("main", "m313", "m314", set_voltage("main", cfg.max_v))

MeasureSampleCurrent ==
  Command("main", "m314", "m315", set_current("main", SAMPLE_CURRENT))

MeasureOutputOn == Command("main", "m315", "m316", set_output("main", TRUE))

\* attach_battery(enable=True, reverse_polarity=False); time.sleep(1)
MeasureAttachForward == MeasureAttach("m316", TRUE, FALSE, "m318")

MeasureSample == get_battery_voltage("main", "m318", "m322", FALSE)

\* print('{:.2f} V, resume (dis)charging'.format(voltage));
\* attach_battery(enable=False).  The sample is not read again: the caller
\* assigns the returned value to a local it overwrites before reading it.
MeasureDetachAgain ==
  /\ pc["main"] = "m322"
  /\ CallAttach("main", FALSE, FALSE, "m323")
  /\ Forget("main")
  /\ Quiet
  /\ UNCHANGED <<cfgv, filv, glov, relv, supply_voltage, prov, hisv, stub, lock>>

MeasureRestoreVoltage ==
  Command("main", "m323", "m324", set_voltage("main", saved.v))

MeasureRestoreCurrent ==
  Command("main", "m324", "m325", set_current("main", saved.i))

\* attach_battery(enable=True, reverse_polarity=not charge)
MeasureReattach == MeasureAttach("m325", TRUE, cfg.discharge, "m326")

\* an interruption whose clock value the caller does not take over
MeasureClock_notReturned ==
  /\ pc["main"] = "m326"
  /\ \E c \in ClockAfterPause : now' = c
  /\ Goto("main", "m328")
  /\ Quiet
  /\ UNCHANGED <<cfgv, filv, glov, relv, locv, hisv, stub, call, lock,
                 actual_capacity, prev_capacity, prev_clock, saved, snap,
                 roundTrip>>

\* clock = time.perf_counter(); time.sleep(1); the value becomes prev_clock
\* of the caller
MeasureClock ==
  /\ pc["main"] = "m326"
  /\ \E c \in ClockAfterPause : now' = c /\ prev_clock' = c
  /\ Goto("main", "m328")
  /\ Quiet
  /\ UNCHANGED <<cfgv, filv, glov, relv, locv, hisv, stub, call, lock,
                 actual_capacity, prev_capacity, saved, snap, roundTrip>>

MeasureRestoreOvp == Command("main", "m328", "m329", set_ovp("main", m_set_ovp))

\* return voltage, clock: the lock is released; time.sleep(m_polling_delay)
MeasureReturn ==
  /\ pc["main"] = "m329"
  /\ Release("main")
  /\ roundTrip' = IF SupplyState = snap THEN "same" ELSE "differs"
  /\ snap' = NoSnap
  /\ saved' = NoSaved
  /\ Forget("main")
  /\ Goto("main", "p358")
  /\ interruptions' = interruptions + 1
  /\ Quiet
  /\ UNCHANGED <<cfgv, f, glov, relv, hisv, stub, call, actual_capacity,
                 prev_capacity, prev_clock, now, supply_voltage>>

measure_battery_voltage ==
  \/ MeasureAcquire \/ MeasureSaveVoltage \/ MeasureSaveCurrent
  \/ MeasureDetach \/ MeasureOutputOff \/ MeasureOvpOff \/ MeasureMaxVoltage
  \/ MeasureSampleCurrent \/ MeasureOutputOn \/ MeasureAttachForward
  \/ MeasureSample \/ MeasureDetachAgain \/ MeasureRestoreVoltage
  \/ MeasureRestoreCurrent \/ MeasureReattach \/ MeasureClock
  \/ MeasureRestoreOvp \/ MeasureReturn

EngineEnded == pc["engine"] \in {"done", "crashed"}

\* a join that does not wait for the engine thread
Join_noWait ==
  /\ pc["main"] = "p382"
  /\ Goto("main", "p383")
  /\ Quiet
  /\ UNCHANGED <<cfgv, filv, glov, relv, locv, prov, hisv, stub, call, lock>>

\* charger.join()
Join ==
  /\ pc["main"] = "p382"
  /\ EngineEnded
  /\ Goto("main", "p383")
  /\ Quiet
  /\ UNCHANGED <<cfgv, filv, glov, relv, locv, prov, hisv, stub, call, lock>>

ProfileOutputOff == Command("main", "p383", "p384", set_output("main", FALSE))

\* m_tenma.close()
ProfileClose ==
  /\ pc["main"] = "p384"
  /\ tenma' = TenmaClosed
  /\ Goto("main", "p385")
  /\ UNCHANGED <<cfgv, filv, glov, relv, locv, prov, hisv, stub, call, lock,
                 ncmd, lastOut>>

\* if m_relays[0] is not None: for i in range(3): m_relays[i].close()
ProfileRelays ==
  /\ pc["main"] = "p385"
  /\ m_relays' = IF m_relays[0] # "None" THEN RelaysClosed ELSE m_relays
  /\ nrelay' = IF m_relays[0] # "None" THEN Bump(nrelay) ELSE nrelay
  /\ pc' = [pc EXCEPT !["main"] = "exited"]
  /\ status' = "0"
  /\ Quiet
  /\ UNCHANGED <<cfgv, filv, glov, locv, prov, hisv, stub, call, lock, sub, exc,
                 m_relays_connected, m_resistor, relay>>

profile_battery ==
  \/ ProfileStart \/ ProfileLoopTest \/ PollVoltage \/ PollZero
  \/ PollCurrent \/ Integrate \/ Join \/ ProfileOutputOff \/ ProfileClose
  \/ ProfileRelays

\* what only battery-profiler.py has: the main thread's loop and
\* interruption, the engine's lock statements and its attach_battery frame
ProfilerOwn ==
  \/ profile_battery
  \/ measure_battery_voltage
  \/ EngineLocking
  \/ attach_battery("engine")

InitProfiler ==
  /\ script = "profiler"
  /\ response = NoResponse
  /\ files = NoFiles
  /\ cfg \in ProfilerConfigs
  /\ stub = FreeStub
  /\ InitCommon

NextProfiler == Shared \/ ProfilerOwn \/ Cancel

SpecProfiler == InitProfiler /\ [][NextProfiler]_vars

-----------------------------------------------------------------------------
(* Either script *)

Init == InitCharger \/ InitProfiler

\* The statements that only one of the scripts has carry labels that only
\* that script reaches, and E names the thread that runs the engine.
Next == Shared \/ ChargerOwn \/ ProfilerOwn \/ Cancel

Spec == Init /\ [][Next]_vars

-----------------------------------------------------------------------------
(* One query of tenma.py, for every answer and every number of characters  *)
(* read before the timeout                                                 *)

InitTransport ==
  /\ script = "charger"
  /\ cfg = BaseConfig
  /\ stub = FreeStub
  /\ InitCommon
  /\ \E q \in Queries, a \in WireAnswers :
       response = [NoResponse EXCEPT !.query = q, !.sent = a, !.stage = "sent"]
  /\ files = NoFiles

NextTransport == TransportRead \/ TransportReturn

SpecTransport == InitTransport /\ [][NextTransport]_vars

-----------------------------------------------------------------------------
(* One call of open_file, for directories that hold results files already  *)

\* the name the k-th file of a run sequence has: no suffix, then -01, -02, ..
SequenceName(charge, k) ==
  FileName(charge, IF k = 0 THEN <<>> ELSE Format02(k))

\* a directory that holds the files of the given sequence numbers, of both
\* kinds of cycle
DirectoryOf(ks) ==
  [n \in {SequenceName(c, k) : c \in BOOLEAN, k \in ks} |-> <<"old">>]

\* the first k names of the sequence, all of them or all but one
Directories ==
  {DirectoryOf(0..(k - 1)) : k \in 0..(LastTry + 1)}
    \cup {DirectoryOf((0..(k - 1)) \ {h}) :
            k \in {2, LastTry, LastTry + 1}, h \in {0, 1}}

InitOpenFile ==
  /\ script = "profiler"
  /\ response = NoResponse
  /\ cfg \in ProfilerConfigs
  /\ stub = FreeStub
  /\ InitCommon
  /\ \E d \in Directories :
       files = [NoFiles EXCEPT !.stage = "loop", !.before = d, !.disk = d,
                               !.i = 1]

NextOpenFile == OpenFileTry \/ OpenFileEnd \/ OpenFileWrite

SpecOpenFile == InitOpenFile /\ [][NextOpenFile]_vars

-----------------------------------------------------------------------------
(* One call of Tenma.get_status, for every status byte *)

Bytes == 0..255

InitStatus ==
  /\ script = "charger"
  /\ cfg = BaseConfig
  /\ stub = FreeStub
  /\ InitCommon
  /\ files = NoFiles
  /\ \E b \in Bytes :
       response = [NoResponse EXCEPT !.query = "get_status", !.sent = <<b>>,
                                     !.stage = "sent"]

NextStatus == StatusRead \/ StatusReturn

SpecStatus == InitStatus /\ [][NextStatus]_vars

-----------------------------------------------------------------------------
(* Properties *)

Range(s) == {s[k] : k \in 1..Len(s)}

IsPrefix(s, t) == Len(s) <= Len(t) /\ \A k \in 1..Len(s) : s[k] = t[k]

Phases == {"Precharge", "ConstantCurrent", "ConstantVoltage", "Discharge"}

\* the engine function has returned (not left by an exception)
EngineReturned ==
  /\ exc[E] = "none"
  /\ IF script = "charger"
       THEN \/ pc["main"] \in {"f_out", "f_close", "f_relays"}
            \/ pc["main"] = "exited" /\ status = "0"
       ELSE pc["engine"] = "done"

\* C1: when one of the four configured currents exceeds the maximum current
\* the run ends at the ceiling test with a non-zero exit status: the device
\* is never opened, the engine never starts, and no serial command and no
\* relay command is issued.  (An operator abort before the test ends the
\* run with the status of the abort.)
C1_SafetyGate ==
  (\E i \in {cfg.pre_i, cfg.cc, cfg.eoc, cfg.dis_i} : i > cfg.max_i) =>
    /\ pc["main"] \in {"check", "exited"}
    /\ pc["engine"] = "idle"
    /\ tenma.device = "None"
    /\ ncmd = 0
    /\ nrelay = 0
    /\ (pc["main"] = "exited" /\ ~cancelled) => status \notin {"running", "0"}

C1_Witness ==
  /\ cfg.eoc > cfg.max_i
  /\ pc["main"] = "exited"
  /\ status = "255"
  /\ ncmd = 0
  /\ nrelay = 0

PhaseOrder == <<"Precharge", "ConstantCurrent", "ConstantVoltage", "Done">>

OrderedThresholds == cfg.pre_v < cfg.cv /\ cfg.eoc < cfg.cc

\* C2: in a charge run with precharge level < constant-voltage level and
\* end-of-current < constant-current level the phases entered so far are
\* always an initial part of Precharge, ConstantCurrent, ConstantVoltage,
\* Done, and when charge_battery returns without an operator abort they are
\* exactly that sequence.
C2_PhaseOrder ==
  (~cfg.discharge /\ OrderedThresholds) =>
    /\ IsPrefix(visited, PhaseOrder)
    /\ (EngineReturned /\ ~cancelled) => visited = PhaseOrder

C2_Witness ==
  /\ ~cfg.discharge
  /\ OrderedThresholds
  /\ EngineReturned
  /\ ~cancelled
  /\ visited = PhaseOrder

C3_State ==
  /\ preSeen <= 1
  /\ pc[E] \in {"c173", "c174", "c175"} => preSeen = 0
  /\ pc[E] = "c178" => preSeen = 1 /\ voltage[E] >= cfg.pre_v
  /\ "ConstantCurrent" \in Range(visited) => preSeen = 1

C3_Raise ==
  (pc[E] = "c178" /\ pc'[E] = "c180") => tenma'.iset \in FmtCurrent(cfg.cc)

\* C3: charge_battery runs a further Precharge tick only while no
\* compensated reading has been >= the precharge level, it leaves Precharge
\* for ConstantCurrent right after the first such reading (a reading equal
\* to the level counts), and the statement that leaves it writes the
\* constant-current level as the current setpoint.
C3_PrechargeExit == []C3_State /\ [][C3_Raise]_vars

C3_Witness ==
  /\ pc[E] = "c178"
  /\ voltage[E] = cfg.pre_v
  /\ preSeen = 1
  /\ m_running

C4_State ==
  ~cfg.discharge =>
    /\ cvSeen <= 1
    /\ pc[E] \in {"c192", "c193", "c195", "c196"} => cvSeen = 0
    /\ pc[E] = "c200" => cvSeen = 1 /\ current[E] <= cfg.eoc
    /\ "Done" \in Range(visited) => cvSeen = 1
    /\ ("Done" \in Range(visited) /\ pc["main"] = "exited") =>
         lastOut = "OUT0" /\ ~tenma.out

C4_Reached ==
  /\ "Done" \in Range(visited)
  /\ pc["main"] = "exited"
  /\ lastOut = "OUT0"

\* C4: battery-charger.py, charging from a supply whose reported current
\* decays: unless the operator aborts, the run reaches Done and ends with
\* output-disable as its last output command; a further ConstantVoltage
\* tick runs only while no measured current has been <= the end-of-current
\* level, and Done follows the first such measurement (a current equal to
\* the level counts).
C4_DecayReachesDone ==
  /\ []C4_State
  /\ (stub.mode = "decay" /\ pc["main"] = "c161") ~> (C4_Reached \/ cancelled)

C4_Witness ==
  /\ stub.mode = "decay"
  /\ ~cancelled
  /\ cvSeen = 1
  /\ C4_Reached

\* the engine has ended after an abort: its function returned, or (in
\* battery-charger.py) the abort unwound it through 'finally:'
EngineLeft ==
  IF script = "charger" THEN pc["main"] = "exited" ELSE pc["engine"] = "done"

SetLabels ==
  {"c161", "c162", "c163", "c164", "c165", "c169", "c178", "c186", "c195",
   "c204", "d211", "d212", "d213", "d216", "d225", "d228", "d241",
   "m308", "m312", "m313", "m314", "m315", "m323", "m324", "m328", "p383",
   "f_out"}

\* statements that write a query and read its answer
QueryLabels ==
  {"c171", "c174", "c180", "c183", "c184", "c185", "c190", "c193",
   "d230", "d233", "p359", "p364", "m303", "m304", "m318"}

\* thread t executes a step of its own (not its end by SIGINT)
Moves(t) ==
  /\ pc'[t] # pc[t] \/ sub'[t] # sub[t]
  /\ cancelled' = cancelled

\* thread t writes to or reads from the serial device in this step
UsesTransport(t) ==
  DeviceOpen /\ Moves(t) /\ pc[t] \in SetLabels \cup QueryLabels

\* thread t writes a setpoint, output or protection command in this step
WritesSetpoint(t) == DeviceOpen /\ Moves(t) /\ pc[t] \in SetLabels

\* thread t has written a query and not yet read the answer
InFlight(t) == DeviceOpen /\ pc[t] \in QueryLabels /\ sub[t] \in {1, 3}

\* C6: while the main thread holds m_pause_lock (which it does only inside
\* measure_battery_voltage) the engine thread performs no step that uses
\* the serial device.
C6_EngineSilent == [][lock = "main" => ~UsesTransport("engine")]_vars

BothAlive == script = "profiler" /\ pc["main"] # "exited" /\ EngineRunning

\* C7: while both threads of battery-profiler.py are alive, a thread that
\* writes a setpoint, output or protection command holds m_pause_lock.
C7_WritesUnderLock ==
  [][\A t \in Threads : (BothAlive /\ WritesSetpoint(t)) => lock = t]_vars

\* C8: while one thread has a query in flight the other thread neither
\* writes to nor reads from the serial device.
C8_OneInFlight ==
  [][\A t, u \in Threads :
       (t # u /\ InFlight(t)) => ~UsesTransport(u)]_vars

\* C9: when measure_battery_voltage returns, the voltage setpoint, current
\* setpoint, output flag, over-voltage protection flag and polarity relays
\* are as they were when it was called.
C9_RoundTrip == roundTrip # "differs"

MeasureLabels ==
  {"m303", "m304", "m307", "m308", "m312", "m313", "m314", "m315", "m316",
   "m318", "m322", "m323", "m324", "m325", "m326", "m328", "m329"}

\* the main thread is inside the 'with m_pause_lock' of
\* measure_battery_voltage (attach_battery is called by the main thread from
\* there only)
InInterruption ==
  script = "profiler" /\ pc["main"] \in MeasureLabels \cup {"attach"}

TickBodyLabels ==
  {"c174", "c175", "c183", "c184", "c186", "c187", "c193", "c195", "c196",
   "d233", "d234"}

\* the engine thread is inside the 'with m_pause_lock' of a tick
InTickBody == script = "profiler" /\ pc["engine"] \in TickBodyLabels

\* C10: from the statement that records the setpoints to the return of
\* measure_battery_voltage the main thread holds m_pause_lock, the engine
\* holds it throughout a tick body, and so no tick body runs during an
\* interruption.
C10_LockHeld ==
  /\ InInterruption => lock = "main"
  /\ InTickBody => lock = "engine"
  /\ ~(InInterruption /\ InTickBody)

C10_Witness ==
  /\ pc["main"] = "attach"
  /\ call["main"].ret = "m323"
  /\ pc["engine"] \in {"c173", "c182", "c192"}
  /\ lock = "main"

\* the engine of battery-profiler.py has reported Done and executed its
\* final set_output(False)
EngineDoneOff ==
  /\ script = "profiler"
  /\ "Done" \in Range(visited)
  /\ pc["engine"] = "done"

\* C11: in battery-profiler, once the engine has reached Done and written
\* its final output-disable, no later step of the run writes an
\* output-enable: the output flag of the supply never goes from off to on.
C11_OutputStaysOff ==
  [][EngineDoneOff => (tenma'.out => tenma.out)]_vars

\* The two threads of battery-profiler.py.  Each thread that can take a step
\* eventually takes one (the interpreter switches threads every few
\* milliseconds); the operator need not abort.
ProfilerMainSteps ==
  \/ ConfigCheck \/ Open \/ profile_battery \/ measure_battery_voltage
  \/ attach_battery("main")

ProfilerEngineSteps ==
  \/ charge_battery \/ discharge_battery \/ EngineLocking
  \/ attach_battery("engine")

FairProfiler ==
  /\ SpecProfiler
  /\ WF_vars(ProfilerMainSteps)
  /\ WF_vars(ProfilerEngineSteps)

\* Each thread sleeps after it has released m_pause_lock (time.sleep(1) at
\* the end of a tick, time.sleep(m_polling_delay) and a poll after an
\* interruption), so a thread blocked in acquire() runs while the lock is
\* free.
FairLock ==
  /\ FairProfiler
  /\ SF_vars(MeasureAcquire)
  /\ SF_vars(PrechargeAcquire \/ CcAcquire \/ CvAcquire \/ DischargeAcquire)

\* the cleanup of normal completion has been reached: the polling loop has
\* been left and the output-disable of line 383 has been written
ProfilerCleanedUp ==
  /\ pc["main"] \in {"p384", "p385", "exited"}
  /\ exc["main"] = "none"
  /\ lastOut = "OUT0"

\* C12: when a measurement query of the engine thread of battery-profiler
\* fails (exc = "Error"), the run goes on to the cleanup of normal completion: the polling
\* loop of the main thread ends and the output-disable is written (unless
\* the main thread is itself ended by an abort or by a failed read).
C12_EngineFailureCleansUp ==
  (script = "profiler" /\ exc["engine"] = "Error" /\ exc["main"] = "none")
    ~> (ProfilerCleanedUp \/ exc["main"] # "none")

\* every thread of the process has ended
ProcessEnded == ~ProcessAlive

\* no thread was ended by a failed read or a relay failure
NoFailure == \A t \in Threads : exc[t] \in {"none", "SystemExit"}

\* C13: after an operator abort (SIGINT) that arrives while the engine is in
\* a phase, and without any failure in the run, the run ends with the resources released as on normal
\* completion: the last output command is output-disable, the serial
\* device is closed and no relay channel 0..2 is left open, in
\* battery-charger and in battery-profiler.
C13_CancelReleases ==
  (cancelPhase \in Phases /\ ProcessEnded /\ NoFailure) =>
    /\ lastOut = "OUT0"
    /\ tenma.device = "None"
    /\ \A i \in 0..2 : m_relays[i] # "Open"

\* the statements that write 'OUT0'
OutputOffLabels == {"c204", "d241", "f_out", "p383", "m308"}

\* this step executes one of them with a device connected
WritesOutputOff ==
  /\ DeviceOpen
  /\ \E t \in Threads :
       /\ pc[t] \in OutputOffLabels
       /\ pc'[t] # pc[t]
       /\ exc'[t] = exc[t]

\* the run has ended by normal completion
CompletedNormally ==
  /\ ProcessEnded
  /\ ~cancelled
  /\ \A t \in Threads : exc[t] = "none"
  /\ status = "0"

\* C14 (normal completion): the serial device is closed and the relay
\* channels 0..2 that were opened are closed when the run has ended, and
\* once the engine function has returned, having written its
\* output-disable after the last phase, no step writes an output-disable
\* again: the cleanup issues it exactly once.
C14_State ==
  CompletedNormally =>
    /\ tenma.device = "None"
    /\ lastOut = "OUT0"
    /\ \A i \in 0..2 : m_relays[i] # "Open"

C14_OffOnce == EngineReturned => ~WritesOutputOff

C14_CleanupOnce == []C14_State /\ [][C14_OffOnce]_vars

\* a thread was ended by a failed read or a relay failure
Failed == ~NoFailure

\* profile_battery has returned
ProfilerReturned ==
  /\ script = "profiler"
  /\ pc["main"] = "exited"
  /\ exc["main"] = "none"
  /\ pc["engine"] # "idle"

\* C15: in battery-profiler the main thread is past charger.join() (at the
\* output-disable, the close or the relay close, or returned) only when the
\* engine thread has ended; and once m_running is false in a started run,
\* the main thread eventually leaves the polling loop, joins, writes the
\* output-disable and closes the device (unless a thread is ended by a
\* failure), whether m_running was cleared by Done or by an operator abort.
C15_JoinFirst ==
  ((script = "profiler" /\ pc["main"] \in {"p383", "p384", "p385"})
     \/ ProfilerReturned) => ~EngineRunning

C15_Reached ==
  /\ ProfilerReturned
  /\ tenma.device = "None"
  /\ lastOut = "OUT0"

C15_LoopTerminates ==
  /\ []C15_JoinFirst
  /\ (script = "profiler" /\ ~m_running /\ pc["engine"] # "idle")
       ~> (C15_Reached \/ Failed)

LoopTestLabels == {"c172", "c181", "c191", "d231"}

TickStartLabels ==
  {"c173", "c174", "c182", "c183", "c192", "c193", "d232", "d233"}

\* with m_running false, the engine at a loop test does not start a tick
C16_EngineLeaves ==
  (~m_running /\ pc[E] \in LoopTestLabels) => pc'[E] \notin TickStartLabels

\* with m_running false, the main thread of battery-profiler does not go
\* round its loop again, does not call measure_battery_voltage and does not
\* start the decay wait of an interruption
C16_ProfilerLeaves ==
  (~m_running /\ script = "profiler") =>
    /\ ~(pc["main"] = "p358" /\ pc'["main"] = "p359")
    /\ ~(pc["main"] = "p365" /\ pc'["main"] = "m302")
    /\ ~(pc["main"] = "m308" /\ pc'["main"] = "m312")

\* C16: after m_running has become false each task does at most the tick it
\* is in: the engine starts no tick from a loop test, and the profiler
\* starts no new poll, no new measurement interruption and no decay wait.
C16_OneMoreTick == [][C16_EngineLeaves /\ C16_ProfilerLeaves]_vars

\* this step is the integration of a poll (line 366) whose voltage and
\* current samples are not negative
IntegratesSamples ==
  /\ script = "profiler"
  /\ pc["main"] = "p365"
  /\ pc'["main"] \in {"p358", "m302"}
  /\ voltage["main"] >= 0
  /\ current["main"] >= 0

\* C17: a poll with voltage and current samples >= 0 never lowers
\* actual_capacity (the clock of the model never goes back), and a poll at
\* the clock value of the previous poll leaves it unchanged.
C17_Step ==
  IntegratesSamples =>
    /\ now' >= prev_clock
    /\ actual_capacity' >= actual_capacity
    /\ (now' = prev_clock => actual_capacity' = actual_capacity)

LutRows == IF f = <<>> THEN 0 ELSE Len(f) - 1

\* C18: when the polling loop of battery-profiler has been left, the results
\* file holds one data row for each measurement interruption performed.
C18_RowPerInterruption ==
  (script = "profiler" /\ f # <<>>
     /\ pc["main"] \in {"p382", "p383", "p384", "p385", "exited"})
    => LutRows = interruptions

\* the multiples of the step (delta_capacity) that are <= e
StepMultiples(e) == IF e >= 0 THEN e \div cfg.delta ELSE 0

\* C19: whenever the main thread of battery-profiler is at the head of its
\* polling loop, the number of interruptions performed equals the number of
\* multiples of the step that are <= the accumulated energy.
C19_InterruptionPerStep ==
  (script = "profiler" /\ pc["main"] = "p358")
    => interruptions = StepMultiples(actual_capacity)

\* a polarity relay or the resistor-bypass relay changes state
PolarityChanges ==
  \E i \in {RELAYS_POS_CON, RELAYS_NEG_CON, RELAYS_RESISTOR} :
    relay'[i] # relay[i]

\* C20: the polarity relays and the resistor-bypass relay change state only
\* while the battery-enable relay is de-energized.
C20_SwitchWhileDisabled ==
  [][PolarityChanges => ~relay[RELAYS_ENABLE_BATTERY]]_vars

\* the statements that call get_battery_voltage
VoltageLabels == {"c171", "c174", "c180", "c183", "d230", "d233", "p359", "m318"}

\* thread t is about to evaluate the expression with m_resistor (lines 150-154)
ReadsResistance(t) == pc[t] \in VoltageLabels /\ sub[t] = 3

\* the entries of m_resistor that the states of the relays call for
ResistanceOfRelays ==
  [i \in Channels |->
     IF i = RELAYS_ENABLE_BATTERY
       THEN IF relay[i] THEN cfg.r_conn ELSE OPEN_CIRCUIT_RESISTANCE
     ELSE IF i = RELAYS_RESISTOR
       THEN IF relay[RELAYS_POS_CON] THEN cfg.r_dis ELSE 0
     ELSE m_resistor[i]]

RelaysInUse == m_relays_connected /\ m_relays[RELAYS_ENABLE_BATTERY] = "Open"

\* C21: once the relays are in use, whenever a thread reads m_resistor in
\* get_battery_voltage the recorded series resistance agrees with the states
\* of the relays: the battery-enable entry is the connection resistance
\* exactly when that relay is energized and the open-circuit value otherwise,
\* the resistor entry is the discharge resistor exactly when the polarity is
\* reversed and zero otherwise.
C21_ResistanceAgrees ==
  \A t \in Threads :
    (RelaysInUse /\ ReadsResistance(t)) => m_resistor = ResistanceOfRelays

\* the series resistance attach_battery(enable, reverse_polarity) is to leave
AttachedResistance(enable, reverse_polarity) ==
  (IF enable THEN cfg.r_conn ELSE OPEN_CIRCUIT_RESISTANCE)
    + (IF reverse_polarity THEN cfg.r_dis ELSE 0)

\* thread t returns from attach_battery, the relays being in use
AttachReturns(t) ==
  /\ pc[t] = "attach" /\ sub[t] = 5
  /\ pc'[t] = call[t].ret

\* C22: when attach_battery(enable, reverse_polarity) returns with relay
\* hardware present, the series resistance get_battery_voltage uses is the
\* connection resistance (enable) or the open-circuit value (not enable),
\* plus the discharge resistor (reverse_polarity) or zero.
C22_ResistanceAfterAttach ==
  [][\A t \in Threads :
       AttachReturns(t) =>
         SeriesResistance' =
           AttachedResistance(call[t].enable, call[t].reverse_polarity)]_vars

\* the engine writes the voltage setpoint of a ConstantCurrent or
\* ConstantVoltage tick (lines 185-186, 194-195)
WritesTickSetpoint ==
  /\ DeviceOpen
  /\ pc[E] \in {"c186", "c195"}
  /\ pc'[E] # pc[E]
  /\ exc'[E] = exc[E]

C23_Compensation == ~m_relays_connected => SeriesResistance = 0

C23_Setpoint ==
  (~m_relays_connected /\ WritesTickSetpoint)
    => tenma'.vset \in FmtVoltage(cfg.cv + 0 * current[E])

\* C23: without relay hardware the engine uses a series resistance of zero
\* everywhere: in the compensated battery voltage it compares with the
\* thresholds, and in the voltage setpoint it writes each ConstantCurrent /
\* ConstantVoltage tick.
C23_ZeroResistance == []C23_Compensation /\ [][C23_Setpoint]_vars

\* what attach_battery and the cleanup act on
RelayState == <<m_relays, m_resistor, relay>>

\* the relay open of battery-charger.py fails in this step (lines 251-255)
RelayOpenFails == m_relays_connected /\ ~m_relays_connected'

C24_NoOp ==
  /\ ~m_relays_connected => /\ UNCHANGED <<RelayState, nrelay>>
                            /\ ~m_relays_connected'
  /\ RelayOpenFails => UNCHANGED RelayState
  /\ \A t \in Threads :
       (~m_relays_connected /\ pc[t] = "attach" /\ pc'[t] = pc[t]) => sub'[t] = 0

\* C24: without relay hardware (library missing, or after the relay open of
\* battery-charger has failed) no step issues a relay command or changes the
\* relay handles or the recorded series resistances, and attach_battery
\* returns at its first statement; the call whose relay open fails leaves the
\* handles, the resistances and the relays as they were.
C24_AttachIsNoOp == [][C24_NoOp]_vars

\* an attach_battery call has returned after its relay open failed
C24_Witness ==
  /\ script = "charger" /\ cfg.relays /\ ~m_relays_connected
  /\ pc["main"] \in {"c169", "d228"}
  /\ m_relays = [i \in Channels |-> "None"]

\* the main thread executes 'res = m_tenma.open(...); if res != 0: ...'
OpenReturns ==
  /\ pc["main"] = "open" /\ pc'["main"] # "open"
  /\ exc' = exc

\* the answer to '*IDN?' is empty, shorter than 5 characters or does not
\* start with 'TENMA'
BadIdentification(id) ==
  \/ id = <<>>
  \/ Len(id) < 5
  \/ \E k \in 1..5 : id[k] # <<"T", "E", "N", "M", "A">>[k]

OpenFailed ==
  \/ tenma'.device = "None"
  \/ ~cfg.skip_check /\ BadIdentification(tenma'.device_id)

Setpoints == <<tenma.vset, tenma.iset, tenma.out, tenma.ovp, tenma.ocp>>

C25_Open ==
  OpenReturns =>
    /\ IF OpenFailed
         THEN /\ pc'["main"] = "exited"
              /\ status' \notin {"running", "0"}
              /\ UNCHANGED <<Setpoints, lastOut, relv>>
         ELSE pc'["main"] = AfterOpen /\ status' = "running"
    /\ cfg.skip_check => ncmd' = ncmd

\* once the run has ended at the open, nothing more is done
C25_Final ==
  (pc["main"] = "exited" /\ status = "1" /\ pc["engine"] = "idle"
     /\ exc["main"] = "none")
    => /\ lastOut = "none" /\ nrelay = 0 /\ Setpoints = <<0, 0, FALSE, FALSE, FALSE>>
       /\ ~ProcessAlive

\* C25: Tenma.open fails when the port cannot be opened or the identification
\* answer is empty, shorter than 5 characters or does not start with
\* 'TENMA'; the caller then exits with a non-zero status, having issued no
\* setpoint, output or relay command, and the run is over (no retry).  With
\* skip_check no identification query is sent and an opened port means
\* success.
C25_OpenFailureIsFatal == []C25_Final /\ [][C25_Open]_vars

\* the run has ended on the answer of an instrument that is not a TENMA
C25_Witness ==
  /\ tenma.device = "Open"
  /\ Len(tenma.device_id) >= 5 /\ BadIdentification(tenma.device_id)
  /\ pc["main"] = "exited" /\ status = "1"

\* C26: a transport query returns a value to its caller only when it has
\* received its full fixed-length response, and the value is then the one
\* the instrument sent; otherwise it fails with an error.
C26_FullResponseOrError ==
  (response.stage = "returned" /\ response.ok) =>
    /\ Len(response.got) = ReadLength(response.query)
    /\ response.val = FloatValue(response.sent)

\* C27: with a discharge resistor whose sizing is inconsistent with the
\* supply voltage limits the transport is never opened, no command is
\* issued, and the process ends with a non-zero status.
C27_SizingIsFatal ==
  ResistorSizingWarning(cfg) =>
    /\ tenma.device = "None"
    /\ ncmd = 0 /\ nrelay = 0
    /\ pc["main"] \in {"check", "exited"}
    /\ pc["main"] = "exited" => status \notin {"running", "0"} \/ cancelled

\* battery-charger leaves the ConstantCurrent loop for ConstantVoltage
LeavesConstantCurrent ==
  /\ script = "charger"
  /\ pc[E] = "c181" /\ pc'[E] = "c190"
  /\ m_running

\* C28: battery-charger leaves ConstantCurrent for ConstantVoltage only at a
\* tick where the compensated battery voltage has reached the
\* constant-voltage level and the measured current is below 95% of the
\* constant-current level.
C28_BothConditions ==
  [][LeavesConstantCurrent =>
       (voltage[E] >= cfg.cv /\ 100 * current[E] < 95 * cfg.cc)]_vars

\* the loop tests of ConstantCurrent and ConstantVoltage, the statements
\* before the loops that lead to them, and the last statements of a tick
TickTests == {"c181", "c191"}
BeforeLoop == {"c180", "c185", "c190"}
TickEnd == {"c186", "c187", "c195", "c196"}

\* the engine comes back to a loop test
BackToTest == pc'[E] \in TickTests /\ pc[E] # pc'[E]

C29_Tick ==
  /\ (BackToTest /\ pc[E] \notin BeforeLoop) =>
       /\ pc[E] \in TickEnd
       /\ tenma'.vset \in FmtVoltage(cfg.cv + cfg.r_conn * current[E])
  /\ (pc[E] \in {"c186", "c195"} /\ pc'[E] # pc[E] /\ exc'[E] = exc[E]) =>
       /\ DeviceOpen
       /\ tenma'.vset \in FmtVoltage(cfg.cv + cfg.r_conn * current[E])

\* C29: every tick of ConstantCurrent and ConstantVoltage ends with the
\* write of the voltage setpoint constant-voltage level + series connection
\* resistance * current (as the wire format carries it), current being the
\* value measured in that tick; the engine does not come back to the loop
\* test by another way.
C29_RebiasEveryTick == [][C29_Tick]_vars

\* a tick has written a setpoint above the constant-voltage level
C29_Witness ==
  /\ pc[E] \in TickTests
  /\ current[E] > 0 /\ cfg.r_conn > 0
  /\ tenma.vset = cfg.cv + cfg.r_conn * current[E]

DischargeRun == cfg.discharge /\ ~cancelled

C30_Order == DischargeRun => IsPrefix(visited, <<"Discharge", "Done">>)

\* the statement of get_battery_voltage that computes the result
DerivesVoltage ==
  /\ pc[E] \in {"d230", "d233"} /\ sub[E] = 3
  /\ pc'[E] # pc[E] /\ exc'[E] = exc[E]

C30_Step ==
  DischargeRun =>
    /\ (pc[E] = "d228" /\ pc'[E] = "d230" /\ m_relays_connected) =>
         /\ relay[RELAYS_POS_CON] /\ relay[RELAYS_NEG_CON]
         /\ ~relay[RELAYS_RESISTOR]
    /\ DerivesVoltage =>
         \E i \in 0..(MaxCurrK * 2 * IRes) :
           voltage'[E] = SeriesResistance * i - supply_voltage[E]
    /\ (pc[E] = "d231" /\ pc'[E] \in {"d232", "d233"}) =>
         voltage[E] > cfg.empty_v
    /\ (pc[E] = "d231" /\ pc'[E] = "d236") => voltage[E] <= cfg.empty_v
    /\ (pc[E] = "d241" /\ pc'[E] # "d241" /\ exc'[E] = exc[E]) =>
         ~tenma'.out /\ lastOut' = "OUT0"

\* C30: an uncancelled discharge run goes Idle, Discharge, Done.  The
\* battery is attached in reverse polarity when the output is switched on;
\* every reading is the derived battery voltage (series resistance * current
\* - supply voltage); a further tick follows a reading exactly when it is
\* above the empty level, so that the run ends on the first reading <= the
\* level (equal included); the output is then switched off.
C30_DischargeRun == []C30_Order /\ [][C30_Step]_vars

\* a discharge run has ended by itself
C30_Witness ==
  /\ DischargeRun /\ visited = <<"Discharge", "Done">>
  /\ EngineReturned /\ lastOut = "OUT0"

\* the engine is between the first and the last statement of the start of
\* charge_battery (lines 162-169)
ChargeStarting ==
  \/ pc[E] \in {"c162", "c163", "c164", "c165", "c168", "c169"}
  \/ pc[E] = "attach" /\ call[E].ret = "c169"

\* the engine executes 'm_tenma.set_output(True)' of line 169
ChargeEnablesOutput == pc[E] = "c169" /\ pc'[E] = "c171"

ForwardAttached ==
  m_relays_connected =>
    /\ relay[RELAYS_ENABLE_BATTERY]
    /\ ~relay[RELAYS_POS_CON] /\ ~relay[RELAYS_NEG_CON]
    /\ relay[RELAYS_RESISTOR]

C31_Off == ChargeStarting => ~tenma.out

C31_Enable ==
  ChargeEnablesOutput =>
    /\ tenma.iset \in FmtCurrent(cfg.pre_i)
    /\ tenma.vset \in FmtVoltage(cfg.cv)
    /\ ~tenma.ocp /\ ~tenma.ovp
    /\ ForwardAttached
    /\ ~tenma.out /\ tenma'.out

\* C31: at the start of a charge run the output is off from the first
\* command to the last, and it is switched on only with the current setpoint
\* at the precharge current, the voltage setpoint at the constant-voltage
\* level, both protections off and the battery attached in forward polarity.
C31_SetupBeforeOutput == []C31_Off /\ [][C31_Enable]_vars

\* the output has just been switched on, relays in use
C31_Witness ==
  /\ pc[E] = "c171" /\ sub[E] = 0 /\ visited = <<"Precharge">>
  /\ tenma.out /\ m_relays_connected /\ relay[RELAYS_ENABLE_BATTERY]

\* the main loop ends a poll that read a voltage of exactly zero (lines
\* 360-362) and is not ended by the signal handler
ZeroPoll ==
  /\ pc["main"] = "p360" /\ voltage["main"] = 0
  /\ pc'["main"] # "p360" /\ status' = "running"

\* where the integration starts again after a zero poll: at the end of the
\* poll, so that the time spent in it is in no later increment
C32_Skip ==
  ZeroPoll =>
    /\ actual_capacity' = actual_capacity
    /\ prev_capacity' = prev_capacity
    /\ interruptions' = interruptions
    /\ pc'["main"] = "p358"
    /\ prev_clock' = now'

\* C32: a poll that reads a voltage of exactly zero leaves the accumulator
\* unchanged, starts no interruption, and the time spent in it is not counted
\* by a later poll (the integration resumes from the end of the poll).
C32_ZeroPollsSkipped == [][C32_Skip]_vars

\* the part of C32 the code has: accumulator unchanged, no interruption
C32_NoEnergy ==
  [][ZeroPoll => /\ actual_capacity' = actual_capacity
                 /\ interruptions' = interruptions
                 /\ pc'["main"] = "p358"]_vars

\* the clock is read at line 326, after the battery was re-attached
CapturesClock == pc["main"] = "m326" /\ pc'["main"] = "m328"

\* the integration of line 366
Increment == pc["main"] = "p365" /\ pc'["main"] \in {"p358", "m302"}

\* the main thread is not ended by this step (its locals are kept)
MainGoesOn == script = "profiler" /\ pc'["main"] \notin {"exited", "crashed"}

C33_Step ==
  MainGoesOn =>
    /\ InInterruption => actual_capacity' = actual_capacity
    /\ CapturesClock => prev_clock' = now'
    /\ (~CapturesClock /\ ~Increment /\ pc["main"] # "p338")
         => prev_clock' = prev_clock
    /\ Increment =>
         actual_capacity' =
           actual_capacity
             + voltage["main"] * current["main"] * (now' - prev_clock)

\* C33: no step of an interruption changes the accumulator; the clock read
\* after the battery was re-attached becomes prev_clock and stays so until
\* the next increment, which integrates the time elapsed since that value.
C33_PauseNotIntegrated == [][C33_Step]_vars

\* after an interruption that took time the loop is about to integrate
\* positive samples from the clock value captured at its end
C33_Witness ==
  /\ script = "profiler"
  /\ pc["main"] = "p365"
  /\ interruptions >= 1
  /\ voltage["main"] > 0 /\ current["main"] > 0
  /\ prev_clock = MaxClock + 1

\* the sequence numbers a two-digit suffix can carry
SequenceNumbers == 0..99

\* the first name of the sequence that the directory did not hold
FirstFree(charge, dir) ==
  LET k == CHOOSE k \in SequenceNumbers :
             /\ SequenceName(charge, k) \notin DOMAIN dir
             /\ \A j \in 0..(k - 1) : SequenceName(charge, j) \in DOMAIN dir
  IN SequenceName(charge, k)

OpenFileEnded == files.stage \in {"returned", "AttributeError"}

\* C34: when open_file has ended it has returned a file; the file has the
\* first name of the sequence that did not exist, it holds the header row
\* and nothing else, and every file that existed has its old content.
C34_NeverOverwrites ==
  OpenFileEnded =>
    /\ files.stage = "returned"
    /\ files.f = FirstFree(~cfg.discharge, files.before)
    /\ files.disk[files.f] = <<Header(~cfg.discharge)>>
    /\ \A n \in DOMAIN files.before :
         n \in DOMAIN files.disk /\ files.disk[n] = files.before[n]

\* the part of C34 the code has: a call that returns has done all of it,
\* and no call changes a file that existed
C34_WhenReturned ==
  /\ \A n \in DOMAIN files.before :
       n \in DOMAIN files.disk /\ files.disk[n] = files.before[n]
  /\ files.stage = "returned" =>
       /\ files.f = FirstFree(~cfg.discharge, files.before)
       /\ files.disk[files.f] = <<Header(~cfg.discharge)>>

\* the script has run its cleanup after the engine completed: it ends with
\* status 0, no signal was delivered and no exception is pending
CleanedUpNormally ==
  /\ pc["main"] = "exited"
  /\ status = "0"
  /\ ~cancelled
  /\ exc["main"] = "none"
  /\ pc[E] \in {"done", "exited"}

\* C35: after the cleanup of a run that completed normally none of the four
\* relay channels is open.
C35_AllChannelsClosed ==
  CleanedUpNormally => \A i \in Channels : m_relays[i] # "Open"

\* the part of C35 the code has: the first three channels are closed
C35_ThreeChannelsClosed ==
  CleanedUpNormally => \A i \in 0..2 : m_relays[i] # "Open"

RECURSIVE Pow2(_)
Pow2(n) == IF n = 0 THEN 1 ELSE 2 * Pow2(n - 1)

\* bit n of a byte, bit 0 being the least significant
Bit(b, n) == (b \div Pow2(n)) % 2

StatusReturned ==
  response.query = "get_status" /\ response.stage = "returned"

\* C36: the dictionary get_status returns for a status byte has 'ch1' = bit
\* 0, 'ch2' = bit 1, 'tracking' = bits 2-3, 'beep' = bit 4, 'lock' = bit 5
\* and 'output' = bit 6 of the byte.
C36_StatusBits ==
  StatusReturned =>
    LET b == response.sent[1]
        d == response.val
    IN /\ d.ch1 = Bit(b, 0)
       /\ d.ch2 = Bit(b, 1)
       /\ d.tracking = Bit(b, 2) + 2 * Bit(b, 3)
       /\ d.beep = Bit(b, 4)
       /\ d.lock = Bit(b, 5)
       /\ d.output = Bit(b, 6)

\* what the code computes: the fields are taken from the other end of the
\* byte ('ch1' is bit 7, 'ch2' bit 6, 'tracking' bits 5-4, 'beep' bit 3,
\* 'lock' bit 2, 'output' bit 1)
C36_FromTheTop ==
  StatusReturned =>
    LET b == response.sent[1]
        d == response.val
    IN /\ d.ch1 = Bit(b, 7)
       /\ d.ch2 = Bit(b, 6)
       /\ d.tracking = Bit(b, 4) + 2 * Bit(b, 5)
       /\ d.beep = Bit(b, 3)
       /\ d.lock = Bit(b, 2)
       /\ d.output = Bit(b, 1)

\* the supply is set as for the open-circuit sample, with the battery
\* attached: relay energized, output enabled, voltage setpoint at the
\* supply's maximum
SamplingSetup ==
  /\ script = "profiler"
  /\ relay[RELAYS_ENABLE_BATTERY]
  /\ tenma.out
  /\ tenma.vset \in FmtVoltage(cfg.max_v)

\* C37: in battery-profiler, whenever the battery-enable relay is energized,
\* the output is enabled and the voltage setpoint is the supply's maximum,
\* the current setpoint is the sampling current of 0.001 A.
C37_SamplingCurrent ==
  SamplingSetup => tenma.iset \in FmtCurrent(SAMPLE_CURRENT)

\* the same for the configuration whose charging voltage is below the
\* supply's maximum, where only an interruption sets the maximum voltage
C37_BaseConfig ==
  (SamplingSetup /\ cfg = BaseConfig) =>
    tenma.iset \in FmtCurrent(SAMPLE_CURRENT)

\* thread t calls a method of m_tenma that writes to or reads from the
\* serial device in this step, whether or not a device is there
CallsTransport(t) == Moves(t) /\ pc[t] \in SetLabels \cup QueryLabels

\* the main thread of battery-profiler is at its last output-disable, at
\* m_tenma.close() or behind it
AtClose == script = "profiler" /\ pc["main"] \in {"p383", "p384", "p385"}

\* the engine thread has returned or has ended with an exception
EngineOver == pc["engine"] \in {"done", "crashed"}

C38_EngineFirst == AtClose => EngineOver

C38_HandleThere == \A t \in Threads : CallsTransport(t) => tenma.device = "Open"

\* C38: when the main thread of battery-profiler closes the transport the
\* engine thread has ended, so its last command was written before, and in
\* both scripts every command and every query of every thread is issued
\* while the device handle is there: none is issued after close has reset
\* it.
C38_NoCommandAfterClose == []C38_EngineFirst /\ [][C38_HandleThere]_vars

\* the transport has been closed after the engine returned
C38_Witness ==
  /\ script = "profiler"
  /\ pc["main"] = "p385"
  /\ pc["engine"] = "done"
  /\ tenma.device = "None"
  /\ lastOut = "OUT0"

\* the statements 'with m_pause_lock:' of the engine function
EngineAcquireLabels == {"c173", "c182", "c192", "d232"}

\* the thread is blocked in, or about to call, m_pause_lock.acquire()
MainWaits == script = "profiler" /\ pc["main"] = "m302"
EngineWaits == script = "profiler" /\ pc["engine"] \in EngineAcquireLabels

\* the lock is held only by a thread that is inside its 'with' block: not
\* by one that has left the block, normally or with an exception, not by
\* the main thread in charger.join(), not by a thread that has ended
C39_HeldInside ==
  /\ lock = "engine" =>
       pc["engine"] \in {"c174", "c175", "c183", "c184", "c186", "c187",
                         "c193", "c195", "c196", "d233", "d234"}
  /\ lock = "main" =>
       pc["main"] \in {"m303", "m304", "m307", "m308", "m312", "m313", "m314",
                       "m315", "m316", "m318", "m322", "m323", "m324", "m325",
                       "m326", "m328", "m329", "attach"}

\* no thread waits for ever: a thread leaves 'with m_pause_lock:' only with
\* the lock (the main thread also when SIGINT ends it)
C39_MainAcquires == []<>(~MainWaits)

C39_EngineAcquires == []<>(~EngineWaits)

\* C39: m_pause_lock is held only inside a tick body or an interruption (it
\* is released at their end, also when they fail, and is not held during
\* charger.join()), and a thread waiting for the lock eventually has it.
C39_NoDeadlock == []C39_HeldInside /\ C39_MainAcquires /\ C39_EngineAcquires

\* the engine waits for the lock while the main thread holds it in an
\* interruption
C39_Witness ==
  /\ EngineWaits
  /\ lock = "main"
  /\ pc["main"] = "m318"

====
